---- MODULE Spec2Model ----
(***************************************************************************)
(* Model of the review proxy (Netlify function "Yelp Reviews with cache"). *)
(*                                                                         *)
(* Module state: the one-slot cache (cached, cacheTime).  Every invocation *)
(* of exports.handler is a process with the handler's local variables; the *)
(* handler suspends at its two awaits (fetch, res.json), so it runs in at  *)
(* most three atomic steps: Begin, FetchResolve, JsonResolve.              *)
(*                                                                         *)
(* JavaScript values: an object is a record whose DOMAIN is the set of its *)
(* keys that hold a defined value (a key holding undefined and an absent   *)
(* key read the same and JSON.stringify writes neither); null is Null.     *)
(*                                                                         *)
(* Model of the asset worker (service-worker.js): its install, activate    *)
(* and fetch listeners over the origin's CacheStorage, under SpecSW.       *)
(*                                                                         *)
(* Model of the page script (script.js): each widget of the page is a      *)
(* handful of variables and the listeners that change them; the widgets    *)
(* share no state, and each has its own specification.                     *)
(***************************************************************************)
EXTENDS Integers, Sequences, FiniteSets, TLC

\* Bounds of the model.
NInv == 2          \* handler invocations that may be in flight together
MaxTicks == 3      \* clock advances explored
MaxReviews == 2    \* longest upstream review list given to the normalization
NFetch == 2        \* fetch events the asset worker may be handling together
NPages == 2        \* pages of the site open while the asset worker is updated
MaxPending == 2    \* animation-frame callbacks the scroll throttle may have waiting
MaxCards == 3      \* testimonial cards of the carousel
NFaq == 7          \* items of the FAQ accordion
MaxEntries == 2    \* entries the counter's observer may hand over in one callback

CACHE_TTL_MS == 60 * 60 * 1000

\* Date.now() advances in steps of half a freshness window, so that a slot is
\* seen at the ages 0, TTL/2 (fresh), TTL (the boundary) and beyond (stale).
TickMs == CACHE_TTL_MS \div 2
\* Date.now() when the process starts: some instant after the epoch.
StartMs == CACHE_TTL_MS

Inv == 1..NInv

VARIABLES
    cached,      \* module variable `cached`: Null or {reviews}
    cacheTime,   \* module variable `cacheTime`
    now,         \* Date.now()
    pc,          \* per invocation: "idle", "awaitFetch", "awaitJson", "done"
    event,       \* per invocation: event.httpMethod
    envKey,      \* per invocation: process.env.YELP_API_KEY as the invocation finds it
    calls,       \* per invocation: upstream fetch calls issued
    res,         \* per invocation: local `res`
    data,        \* per invocation: local `data`
    err,         \* per invocation: err.message caught
    resp,        \* per invocation: the value the handler returns
    normIn,      \* normalization check: an upstream reviews list
    normOut,     \* normalization check: its normalized list
    swState,       \* asset worker: state of the ServiceWorker object
    cacheStorage,  \* asset worker: `caches`, the caches of the origin in creation order
    manifestFetch, \* asset worker: the answers to the requests of cache.addAll, in flight
    addAllCalls,   \* asset worker: calls of cache.addAll
    swLog,         \* asset worker: what console.error has logged
    skipWaiting,   \* asset worker: self.skipWaiting() was called
    claimed,       \* asset worker: self.clients.claim() was called
    cacheNames,    \* asset worker: what caches.keys() resolved to in the activate listener
    fh,            \* asset worker: per fetch event, the state of its listener
    controller,    \* asset worker: per open page, the worker version that controls it
    prev,          \* asset worker: a fetch listener of the previous version, in flight
    scrollTicking,        \* page script: `scrollTicking`
    framePending,         \* page script: animation-frame callbacks of throttleScroll not yet run
    pageYOffset,          \* page script: window.pageYOffset
    lastScrollY,          \* page script: `lastScrollY`
    cachedWindowHeight,   \* page script: `cachedWindowHeight`
    cachedDocumentHeight, \* page script: `cachedDocumentHeight`
    navbarScrolled,       \* page script: `navbarScrolled`
    handled,              \* page script: the handler calls of the last frame callback, in order
    scrolledSince,        \* page script: a scroll event came after the last frame callback
    innerHeight,          \* page script: window.innerHeight
    resizeTimeout,        \* page script: the timer `resizeTimeout` is set
    submitButton,         \* page script: per form, its submit button (disabled, innerHTML)
    originalButtonText,   \* page script: per form, `originalButtonText` of the last submit
    emailSend,            \* page script: per form, the promise of emailjs.send
    alertShown,           \* page script: per form, the last alert shown
    formFields,           \* page script: per form, the fields that hold a value
    consoleLine,          \* page script: per form, the last console line
    carouselLoaded,       \* page script: the carousel's DOMContentLoaded listener has run
    totalCards,           \* page script: cards.length
    containerWidth,       \* page script: carousel.parentElement.offsetWidth
    cardOffsetWidth,      \* page script: cards[0]?.offsetWidth (0 when there is none)
    currentIndex,         \* page script: `currentIndex` of the carousel
    prevBtn,              \* page script: the previous button (disabled)
    nextBtn,              \* page script: the next button (disabled)
    translateX,           \* page script: the carousel's transform, in px
    carouselTimeout,      \* page script: the carousel's timer `resizeTimeout` is set
    carouselEvent,        \* page script: the carousel listener that ran last
    faqLoaded,            \* page script: the accordion's DOMContentLoaded listener has run
    faqActive,            \* page script: the FAQ items that have the class `active`
    faqClicked,           \* page script: the FAQ item whose question was clicked last (0: none)
    counterLoaded,        \* page script: the counter's DOMContentLoaded listener has run
    dataTarget,           \* page script: the counter element's data-target attribute, as characters
    counterObserved,      \* page script: counterObserver observes the element
    counted,              \* page script: the element has the class `counted`
    counterStarts,        \* page script: calls of animateCounter for the element
    counterFrames,        \* page script: additions of `increment` to `current` so far
    counterPending,       \* page script: updateCounter waits for an animation frame
    textContent           \* page script: the element's textContent, as characters

slot == <<cached, cacheTime>>
normVars == <<normIn, normOut>>
swVars == <<swState, cacheStorage, manifestFetch, addAllCalls, swLog, skipWaiting,
            claimed, cacheNames, fh, controller, prev>>
proxyVars == <<cached, cacheTime, now, pc, event, envKey, calls, res, data, err, resp>>
scrollVars == <<scrollTicking, framePending, pageYOffset, lastScrollY, cachedWindowHeight,
                cachedDocumentHeight, navbarScrolled, handled, scrolledSince,
                innerHeight, resizeTimeout>>
formVars == <<submitButton, originalButtonText, emailSend, alertShown, formFields,
              consoleLine>>
carouselVars == <<carouselLoaded, totalCards, containerWidth, cardOffsetWidth, currentIndex,
                  prevBtn, nextBtn, translateX, carouselTimeout, carouselEvent>>
faqVars == <<faqLoaded, faqActive, faqClicked>>
counterVars == <<counterLoaded, dataTarget, counterObserved, counted, counterStarts,
                 counterFrames, counterPending, textContent>>
pageVars == <<scrollVars, formVars, carouselVars, faqVars, counterVars>>
vars == <<cached, cacheTime, now, pc, event, envKey, calls, res, data, err, resp,
          normIn, normOut,
          swState, cacheStorage, manifestFetch, addAllCalls, swLog, skipWaiting,
          claimed, cacheNames, fh, controller, prev,
          scrollTicking, framePending, pageYOffset, lastScrollY, cachedWindowHeight,
          cachedDocumentHeight, navbarScrolled, handled, scrolledSince,
          innerHeight, resizeTimeout,
          submitButton, originalButtonText, emailSend, alertShown, formFields, consoleLine,
          carouselVars, faqVars, counterVars>>

----------------------------------------------------------------------------
\* JavaScript values

Null == [null |-> TRUE]
Has(o, k) == k \in DOMAIN o
Restrict(o, S) == [k \in S |-> o[k]]

\* A variable not yet assigned.
NotApplied == [applied |-> FALSE]
NoRes == [status |-> 0]
NoData == [unset |-> TRUE]
NoResp == [statusCode |-> 0]

\* "" stands for an unset (or empty) YELP_API_KEY: both are falsy.
Keys == {"", "key-1"}
\* Values of YELP_API_KEY that hold a line break (a key pasted with the line
\* that followed it): `Bearer ${apiKey}` is then no valid header value.
BrokenKeys == {"key-2\nkey-3", "key-4\nkey-5"}
\* The values told apart when the handler's use of the key's text is examined.
SecretKeys == {"key-1", "key-6"} \cup BrokenKeys

\* JSON.stringify(v): the JSON text, modelled by the JSON value it denotes.
\* The empty body '' is no JSON text.
EmptyBody == [text |-> ""]
JSONstringify(v) == [json |-> v]

----------------------------------------------------------------------------
\* Upstream bodies of the handler specification

ReviewFull ==
    [rating |-> 5, text |-> "great", time_created |-> "2024-01-01", url |-> "u1",
     user |-> [name |-> "Ann", location |-> "San Jose"]]
ReviewNoUser ==
    [rating |-> 4, text |-> "ok", time_created |-> "2024-02-02", url |-> "u2"]

\* What `await res.json()` may resolve to.
Bodies ==
    { Null,
      [total |-> 0],
      [total |-> 0, reviews |-> <<>>],
      [total |-> 1, reviews |-> <<ReviewNoUser>>],
      [total |-> 2, reviews |-> <<ReviewFull, ReviewNoUser>>],
      [total |-> 1, reviews |-> <<Null>>] }

----------------------------------------------------------------------------
\* The asset worker: values

Fetchers == 1..NFetch
Pages == 1..NPages

CACHE_NAME == "ruzanova-fitness-v4"

STATIC_ASSETS ==
    { "/", "/index.html", "/styles.css", "/script.js", "/booking.html",
      "/site.webmanifest", "/favicon.svg", "/favicon-32x32.png",
      "/favicon-16x16.png", "/apple-touch-icon.png",
      "/assets/photos/hero-stage.jpg", "/assets/photos/hero-stage.webp",
      "/assets/photos/about-medal.jpg", "/assets/photos/about-medal.webp",
      "/assets/photos/about-cutout.webp", "/assets/photos/hero-cutout.webp" }

\* A URL is the sequence of the pieces of its text: the pieces of the origin,
\* then the path.  self.location.origin is LocationOrigin.
LocationOrigin == <<"https://ruzanovafit.com">>

Url(origin, path) == origin \o <<path>>
OriginOf(url) == SubSeq(url, 1, Len(url) - 1)

Request(method, url, destination) ==
    [method |-> method, url |-> url, destination |-> destination]

\* The fetch events dispatched to the worker.
Requests ==
    { Request("GET", Url(LocationOrigin, "/styles.css"), "style"),
      Request("GET", Url(LocationOrigin, "/about.html"), "document"),
      Request("POST", Url(LocationOrigin, "/booking.html"), ""),
      Request("GET", Url(<<"https://cdn.example.org">>, "/sdk.js"), "script"),
      \* another origin whose text begins with the text of LocationOrigin
      Request("GET", Url(<<"https://ruzanovafit.com", ".example.net">>, "/sdk.js"),
              "script") }

NetResponse(status, type, body) == [status |-> status, type |-> type, body |-> body]

\* What fetch(event.request) may resolve to: a same-origin request is answered
\* with a basic response, a request to another origin with a cors response.
NetResponses(request) ==
    IF OriginOf(request.url) = LocationOrigin
    THEN { NetResponse(200, "basic", b) : b \in {"v1", "v2"} }
         \cup { NetResponse(404, "basic", "v1") }
    ELSE { NetResponse(200, "cors", "v1") }

\* A rejected fetch, and what the page gets for respondWith(undefined).
NetworkError == [error |-> "network error"]
\* undefined: caches.match found nothing
NoMatch == [none |-> TRUE]
NoFetch == [none |-> TRUE]

\* The listener of a fetch event that was not dispatched yet.
IdleFetch ==
    [pc |-> "idle", request |-> Request("", <<>>, ""), respondWith |-> FALSE,
     matches |-> 0, fetches |-> 0, response |-> NoMatch]

\* A cache is its name and its entries, one per URL.
Cache(name, entries) == [name |-> name, entries |-> entries]
Entry(url, response) == [url |-> url, response |-> response]

NamesOf(storage) == { storage[k].name : k \in 1..Len(storage) }
IndexOf(storage, name) == CHOOSE k \in 1..Len(storage) : storage[k].name = name
EntriesOf(storage, name) ==
    IF name \in NamesOf(storage) THEN storage[IndexOf(storage, name)].entries ELSE {}

\* caches.keys()
CachesKeys(storage) == [k \in 1..Len(storage) |-> storage[k].name]

\* caches.open(name): the cache is created when it does not exist
CachesOpen(storage, name) ==
    IF name \in NamesOf(storage) THEN storage ELSE Append(storage, Cache(name, {}))

\* caches.delete(name)
CachesDelete(storage, name) ==
    SelectSeq(storage, LAMBDA c : c.name # name)

\* cache.match(url) on one cache
CacheMatch(entries, url) ==
    IF \E e \in entries : e.url = url
    THEN (CHOOSE e \in entries : e.url = url).response
    ELSE NoMatch

CachesMatchNever(storage, url) == NoMatch
\* caches.match(url): the first cache, in creation order, that holds the URL
CachesMatch(storage, url) ==
    IF \E k \in 1..Len(storage) : CacheMatch(storage[k].entries, url) # NoMatch
    THEN LET first == CHOOSE k \in 1..Len(storage) :
                        /\ CacheMatch(storage[k].entries, url) # NoMatch
                        /\ \A j \in 1..(k - 1) : CacheMatch(storage[j].entries, url) = NoMatch
         IN  CacheMatch(storage[first].entries, url)
    ELSE NoMatch

\* cache.put(url, response) on the cache `name`, which exists
CachePutBeside(storage, name, url, response) ==
    [storage EXCEPT ![IndexOf(storage, name)].entries = @ \cup {Entry(url, response)}]
CachePut(storage, name, url, response) ==
    [storage EXCEPT ![IndexOf(storage, name)].entries =
        { e \in @ : e.url # url } \cup {Entry(url, response)}]

\* An answer cache.addAll accepts: a response whose status is in 200..299.
AddAllAccepts(answer) ==
    Has(answer, "status") /\ answer.status >= 200 /\ answer.status <= 299

\* cache.addAll(paths) on the cache `name`, given the answers to its requests:
\* every entry is stored, or the call rejects and none is.
AddAllRejects(answers) == \E p \in DOMAIN answers : ~AddAllAccepts(answers[p])
CacheAddAllNothing(storage, name, answers) == storage
CacheAddAllPartial(storage, name, answers) ==
    [storage EXCEPT ![IndexOf(storage, name)].entries =
        @ \cup { Entry(Url(LocationOrigin, p), answers[p]) :
                    p \in { q \in DOMAIN answers : AddAllAccepts(answers[q]) } }]
CacheAddAll(storage, name, answers) ==
    IF AddAllRejects(answers)
    THEN storage
    ELSE [storage EXCEPT ![IndexOf(storage, name)].entries =
            { e \in @ : \A p \in DOMAIN answers : e.url # Url(LocationOrigin, p) }
            \cup { Entry(Url(LocationOrigin, p), answers[p]) : p \in DOMAIN answers }]
\* The forms of the site: the contact form and the booking form.
Forms == {"contact", "booking"}
\* The markup of a form's submit button as the page has it.
ButtonText(form) == IF form = "contact" THEN "Send Message" ELSE "Request Booking"

\* The page script when the page has loaded, before the DOMContentLoaded
\* listeners: the scroll throttle, the two forms, the carousel, the FAQ
\* accordion and the animated counter.
PageNotStarted ==
    /\ scrollTicking = FALSE
    /\ framePending = 0
    /\ pageYOffset = 0
    /\ lastScrollY = 0
    /\ cachedWindowHeight = 0
    /\ cachedDocumentHeight = 0
    /\ navbarScrolled = FALSE
    /\ handled = <<>>
    /\ scrolledSince = FALSE
    /\ innerHeight = 800
    /\ resizeTimeout = FALSE
    /\ submitButton = [f \in Forms |-> [disabled |-> FALSE, innerHTML |-> ButtonText(f)]]
    /\ originalButtonText = [f \in Forms |-> ""]
    /\ emailSend = [f \in Forms |-> "none"]
    /\ alertShown = [f \in Forms |-> ""]
    /\ formFields = [f \in Forms |-> {}]
    /\ consoleLine = [f \in Forms |-> ""]
    /\ carouselLoaded = FALSE
    /\ totalCards = 0
    /\ containerWidth = 1200
    /\ cardOffsetWidth = 0
    /\ currentIndex = 0
    /\ prevBtn = [disabled |-> FALSE]
    /\ nextBtn = [disabled |-> FALSE]
    /\ translateX = 0
    /\ carouselTimeout = FALSE
    /\ carouselEvent = "none"
    /\ faqLoaded = FALSE
    /\ faqActive = {}
    /\ faqClicked = 0
    /\ counterLoaded = FALSE
    /\ dataTarget = <<"0">>
    /\ counterObserved = FALSE
    /\ counted = FALSE
    /\ counterStarts = 0
    /\ counterFrames = 0
    /\ counterPending = FALSE
    /\ textContent = <<"0">>

\* The worker before its install event.
WorkerNotStarted ==
    /\ swState = "parsed"
    /\ cacheStorage = <<>>
    /\ manifestFetch = NoFetch
    /\ addAllCalls = 0
    /\ swLog = {}
    /\ skipWaiting = FALSE
    /\ claimed = FALSE
    /\ cacheNames = <<>>
    /\ fh = [f \in Fetchers |-> IdleFetch]
    /\ controller = [p \in Pages |-> "none"]
    /\ prev = "idle"

----------------------------------------------------------------------------
\* The handler's expressions

Headers ==
    [ACAO |-> "*", ACAH |-> "Content-Type", ContentType |-> "application/json"]

Response(status, body) == [statusCode |-> status, headers |-> Headers, body |-> body]

\* line 21: cached && Date.now() - cacheTime < CACHE_TTL_MS
FreshNonEmpty(c, t, n) == c # Null /\ c.reviews # <<>> /\ n - t < CACHE_TTL_MS
FreshOrInFlight(c, t, n) ==
    \/ c # Null /\ n - t < CACHE_TTL_MS
    \/ \E j \in Inv : pc[j] \in {"awaitFetch", "awaitJson"}
FreshSeconds(c, t, n) == c # Null /\ n - t < CACHE_TTL_MS \div 1000
FreshLe(c, t, n) == c # Null /\ n - t <= CACHE_TTL_MS
Fresh(c, t, n) == c # Null /\ n - t < CACHE_TTL_MS

\* line 26: !apiKey
NoKeyNever(k) == FALSE
NoKey(k) == k = ""

\* line 37: Authorization: `Bearer ${apiKey}`, the pieces of the text
Authorization(apiKey) == <<"Bearer ", apiKey>>

\* A header value fetch accepts: no line break in it.
ValidHeaderValue(value) == \A p \in 1..Len(value) : value[p] \notin BrokenKeys

\* err.message of the TypeError fetch rejects with when a header value is not
\* valid: the text of Node, the runtime of a Netlify function, which quotes
\* the value.
InvalidHeaderText(apiKey) ==
    CASE apiKey = "key-2\nkey-3"
           -> "Headers.append: Bearer key-2\nkey-3 is an invalid header value."
      [] apiKey = "key-4\nkey-5"
           -> "Headers.append: Bearer key-4\nkey-5 is an invalid header value."
      [] OTHER -> "Headers.append: invalid header value."

\* line 39: res.ok
OkAny(r) == r.status >= 200
Ok(r) == r.status >= 200 /\ r.status <= 299

\* line 51: r.user?.name || 'Anonymous'
UserNameNullish(r) ==
    IF Has(r, "user") /\ Has(r.user, "name") THEN r.user.name ELSE "Anonymous"
UserName(r) ==
    IF Has(r, "user") /\ Has(r.user, "name") /\ r.user.name # ""
    THEN r.user.name ELSE "Anonymous"

\* line 51: r.user?.location || 'California'
UserLocationNoDefault(r) ==
    IF Has(r, "user") /\ Has(r.user, "location") THEN r.user.location ELSE ""
UserLocation(r) ==
    IF Has(r, "user") /\ Has(r.user, "location") /\ r.user.location # ""
    THEN r.user.location ELSE "California"

\* lines 47-53: the mapped element
NormalizeReview(r) ==
    [k \in (DOMAIN r \cap {"rating", "text", "time_created", "url"}) \cup {"user"} |->
        IF k = "user"
        THEN [name |-> UserName(r), location |-> UserLocation(r)]
        ELSE r[k]]

\* line 47: (data.reviews || [])
ReviewsOf(d) == IF Has(d, "reviews") THEN d.reviews ELSE <<>>

NormalizeListRaw(rs) == rs
\* lines 47-53: .map(...)
NormalizeList(rs) == [k \in 1..Len(rs) |-> NormalizeReview(rs[k])]

\* lines 47-53 throw a TypeError on a null body or a null element
Throws(d) == d = Null \/ \E k \in 1..Len(ReviewsOf(d)) : ReviewsOf(d)[k] = Null

\* line 18
OptionsResponseOk == Response(200, EmptyBody)
OptionsResponse == Response(204, EmptyBody)

\* lines 27-31
ConfigErrorNoReviews ==
    Response(500, JSONstringify([error |-> "YELP_API_KEY not configured"]))
ConfigErrorResponse ==
    Response(500, JSONstringify([error |-> "YELP_API_KEY not configured", reviews |-> <<>>]))

\* lines 40-44
UpstreamErrorAs500(r) ==
    Response(500, JSONstringify([error |-> "Yelp API error", reviews |-> <<>>]))
UpstreamErrorNoError(r) ==
    Response(r.status, JSONstringify([reviews |-> <<>>]))
UpstreamErrorResponse(r) ==
    Response(r.status, JSONstringify([error |-> "Yelp API error", reviews |-> <<>>]))

\* lines 58-62
ExceptionResponseFixedText(message) ==
    Response(500, JSONstringify([error |-> "Internal error", reviews |-> <<>>]))
ExceptionResponse(message) ==
    Response(500, JSONstringify([error |-> message, reviews |-> <<>>]))

----------------------------------------------------------------------------
\* The handler

Init ==
    /\ cached = Null
    /\ cacheTime = 0
    /\ now = StartMs
    /\ pc = [i \in Inv |-> "idle"]
    /\ event = [i \in Inv |-> ""]
    /\ envKey = [i \in Inv |-> ""]
    /\ calls = [i \in Inv |-> 0]
    /\ res = [i \in Inv |-> NoRes]
    /\ data = [i \in Inv |-> NoData]
    /\ err = [i \in Inv |-> ""]
    /\ resp = [i \in Inv |-> NoResp]
    /\ normIn = <<>>
    /\ normOut = NotApplied
    /\ WorkerNotStarted
    /\ PageNotStarted

\* The clock advances.
Tick ==
    /\ now + TickMs <= StartMs + MaxTicks * TickMs
    /\ now' = now + TickMs
    /\ UNCHANGED <<slot, pc, event, envKey, calls, res, data, err, resp, normVars, pageVars,
                   swVars>>

\* lines 11-33: from the call up to the first return or the fetch
BeginWith(i, keys) ==
    /\ pc[i] = "idle"
    \* the handler compares event.httpMethod with 'OPTIONS' only: "GET" stands
    \* for every other method
    /\ \E m \in {"GET", "OPTIONS"}, k \in keys :
        /\ event' = [event EXCEPT ![i] = m]
        /\ envKey' = [envKey EXCEPT ![i] = k]
        /\ IF m = "OPTIONS"
           THEN /\ resp' = [resp EXCEPT ![i] = OptionsResponse]
                /\ pc' = [pc EXCEPT ![i] = "done"]
                /\ UNCHANGED calls
           ELSE IF Fresh(cached, cacheTime, now)
           THEN /\ resp' = [resp EXCEPT ![i] = Response(200, JSONstringify(cached))]
                /\ pc' = [pc EXCEPT ![i] = "done"]
                /\ UNCHANGED calls
           ELSE IF NoKey(k)
           THEN /\ resp' = [resp EXCEPT ![i] = ConfigErrorResponse]
                /\ pc' = [pc EXCEPT ![i] = "done"]
                /\ UNCHANGED calls
           ELSE /\ calls' = [calls EXCEPT ![i] = calls[i] + 1]
                /\ pc' = [pc EXCEPT ![i] = "awaitFetch"]
                /\ UNCHANGED resp
    /\ UNCHANGED <<slot, now, res, data, err, normVars, pageVars, swVars>>

Begin(i) == BeginWith(i, Keys)

\* lines 35-45 and 57-63: the fetch settles
FetchResolve(i) ==
    /\ pc[i] = "awaitFetch"
    /\ \/ /\ err' = [err EXCEPT ![i] =
                        IF ValidHeaderValue(Authorization(envKey[i]))
                        THEN "fetch failed"
                        ELSE InvalidHeaderText(envKey[i])]
          /\ resp' = [resp EXCEPT ![i] = ExceptionResponse(err'[i])]
          /\ pc' = [pc EXCEPT ![i] = "done"]
          /\ UNCHANGED res
       \/ \E s \in {200, 201, 503} :
          /\ ValidHeaderValue(Authorization(envKey[i]))
          /\ res' = [res EXCEPT ![i] = [status |-> s]]
          /\ IF ~Ok(res'[i])
             THEN /\ resp' = [resp EXCEPT ![i] = UpstreamErrorResponse(res'[i])]
                  /\ pc' = [pc EXCEPT ![i] = "done"]
             ELSE /\ pc' = [pc EXCEPT ![i] = "awaitJson"]
                  /\ UNCHANGED resp
          /\ UNCHANGED err
    /\ UNCHANGED <<slot, now, event, envKey, calls, data, normVars, pageVars, swVars>>

\* lines 46-63: res.json() settles
JsonResolvePayloadFirst(i) ==
    /\ pc[i] = "awaitJson"
    /\ \E d \in Bodies :
          /\ ~Throws(d)
          /\ data' = [data EXCEPT ![i] = d]
          /\ cached' = [reviews |-> NormalizeList(ReviewsOf(d))]
          /\ resp' = [resp EXCEPT ![i] = Response(200, JSONstringify(cached'))]
          /\ UNCHANGED <<cacheTime, err>>
    /\ pc' = [pc EXCEPT ![i] = "done"]
    /\ UNCHANGED <<now, event, envKey, calls, res, normVars, pageVars, swVars>>
JsonResolve(i) ==
    /\ pc[i] = "awaitJson"
    /\ \/ /\ err' = [err EXCEPT ![i] = "Unexpected end of JSON input"]
          /\ resp' = [resp EXCEPT ![i] = ExceptionResponse(err'[i])]
          /\ UNCHANGED <<slot, data>>
       \/ \E d \in Bodies :
          /\ data' = [data EXCEPT ![i] = d]
          /\ IF Throws(d)
             THEN /\ err' = [err EXCEPT ![i] = "Cannot read properties of null"]
                  /\ resp' = [resp EXCEPT ![i] = ExceptionResponse(err'[i])]
                  /\ UNCHANGED slot
             ELSE /\ cached' = [reviews |-> NormalizeList(ReviewsOf(d))]
                  /\ cacheTime' = now
                  /\ resp' = [resp EXCEPT ![i] = Response(200, JSONstringify(cached'))]
                  /\ UNCHANGED err
    /\ pc' = [pc EXCEPT ![i] = "done"]
    /\ UNCHANGED <<now, event, envKey, calls, res, normVars, pageVars, swVars>>

\* The caller has the response; the invocation's frame is gone.
Return(i) ==
    /\ pc[i] = "done"
    /\ pc' = [pc EXCEPT ![i] = "idle"]
    /\ event' = [event EXCEPT ![i] = ""]
    /\ envKey' = [envKey EXCEPT ![i] = ""]
    /\ calls' = [calls EXCEPT ![i] = 0]
    /\ res' = [res EXCEPT ![i] = NoRes]
    /\ data' = [data EXCEPT ![i] = NoData]
    /\ err' = [err EXCEPT ![i] = ""]
    /\ resp' = [resp EXCEPT ![i] = NoResp]
    /\ UNCHANGED <<slot, now, normVars, pageVars, swVars>>

Next ==
    \/ Tick
    \/ \E i \in Inv : Begin(i)
    \/ \E i \in Inv : FetchResolve(i)
    \/ \E i \in Inv : JsonResolve(i)
    \/ \E i \in Inv : Return(i)

Spec == Init /\ [][Next]_vars

\* The handler, the key's text told apart: YELP_API_KEY is set, to a key or
\* to a text that holds a line break.
NextSecret ==
    \/ Tick
    \/ \E i \in Inv : BeginWith(i, SecretKeys)
    \/ \E i \in Inv : FetchResolve(i)
    \/ \E i \in Inv : JsonResolve(i)
    \/ \E i \in Inv : Return(i)

SpecSecret == Init /\ [][NextSecret]_vars

----------------------------------------------------------------------------
\* The normalization (lines 47-53) on its own, over a wider set of upstream
\* reviews than the handler specification explores.

\* user objects an upstream review may carry: name and location each absent,
\* empty or set; or null.
UpUsers ==
    { Restrict([name |-> n, location |-> l], D) :
        n \in {"", "Ann"}, l \in {"", "San Jose"},
        D \in (SUBSET {"name", "location"}) \ {{}} }
    \cup {Null}

\* Upstream reviews: every user with all other fields set, and every non-empty
\* subset of the fields.
UpReviews ==
    { [ReviewFull EXCEPT !.rating = r, !.user = u] : r \in {1, 5}, u \in UpUsers }
    \cup { Restrict(ReviewFull, D) : D \in (SUBSET DOMAIN ReviewFull) \ {{}} }

InitNorm ==
    /\ cached = Null
    /\ cacheTime = 0
    /\ now = StartMs
    /\ pc = [i \in Inv |-> "idle"]
    /\ event = [i \in Inv |-> ""]
    /\ envKey = [i \in Inv |-> ""]
    /\ calls = [i \in Inv |-> 0]
    /\ res = [i \in Inv |-> NoRes]
    /\ data = [i \in Inv |-> NoData]
    /\ err = [i \in Inv |-> ""]
    /\ resp = [i \in Inv |-> NoResp]
    /\ normIn \in UNION { [1..n -> UpReviews] : n \in 0..MaxReviews }
    /\ normOut = NotApplied
    /\ WorkerNotStarted
    /\ PageNotStarted

\* lines 47-53 applied to normIn
ApplyNormalize ==
    /\ normOut = NotApplied
    /\ normOut' = [applied |-> TRUE, reviews |-> NormalizeList(normIn)]
    /\ UNCHANGED <<slot, now, pc, event, envKey, calls, res, data, err, resp, normIn, swVars,
                   pageVars>>

NextNorm == ApplyNormalize

SpecNorm == InitNorm /\ [][NextNorm]_vars

----------------------------------------------------------------------------
\* The asset worker: its listeners

\* The cache name of the version deployed before: the site had a worker of
\* that version when its cache is there.
PREVIOUS_CACHE_NAME == "ruzanova-fitness-v3"

\* Caches the origin may hold when the worker is installed, in creation
\* order: one of an earlier version, one of the current name left by an
\* earlier install, one of another name.  Each holds an earlier root document.
EarlierNames == <<PREVIOUS_CACHE_NAME, CACHE_NAME, "ruzanova-fitness-v2">>
EarlierEntries ==
    { Entry(Url(LocationOrigin, "/index.html"), NetResponse(200, "basic", "v0")) }
EarlierStorages ==
    { SelectSeq([k \in 1..Len(EarlierNames) |-> Cache(EarlierNames[k], EarlierEntries)],
                LAMBDA c : c.name \in S) : S \in SUBSET NamesOf([k \in 1..Len(EarlierNames) |-> Cache(EarlierNames[k], {})]) }

\* The answers the requests of cache.addAll(STATIC_ASSETS) may get: all
\* answered 200; one path answered 404 or not at all; none answered.
ManifestAnswers ==
    { [p \in STATIC_ASSETS |-> NetResponse(200, "basic", "v1")] }
    \cup { [p \in STATIC_ASSETS |->
              IF p = bad THEN answer ELSE NetResponse(200, "basic", "v1")] :
           bad \in STATIC_ASSETS,
           answer \in {NetworkError, NetResponse(404, "basic", "v1")} }
    \cup { [p \in STATIC_ASSETS |-> NetworkError] }

\* The pages open when the worker is installed: each controlled by the worker
\* of the previous version, if there is one, or by none.
OpenPages(storage) ==
    IF PREVIOUS_CACHE_NAME \in NamesOf(storage)
    THEN [Pages -> {"none", "previous"}]
    ELSE {[p \in Pages |-> "none"]}

InitSW ==
    /\ cached = Null
    /\ cacheTime = 0
    /\ now = StartMs
    /\ pc = [i \in Inv |-> "idle"]
    /\ event = [i \in Inv |-> ""]
    /\ envKey = [i \in Inv |-> ""]
    /\ calls = [i \in Inv |-> 0]
    /\ res = [i \in Inv |-> NoRes]
    /\ data = [i \in Inv |-> NoData]
    /\ err = [i \in Inv |-> ""]
    /\ resp = [i \in Inv |-> NoResp]
    /\ normIn = <<>>
    /\ normOut = NotApplied
    /\ swState = "parsed"
    /\ cacheStorage \in EarlierStorages
    /\ manifestFetch = NoFetch
    /\ addAllCalls = 0
    /\ swLog = {}
    /\ skipWaiting = FALSE
    /\ claimed = FALSE
    /\ cacheNames = <<>>
    /\ fh = [f \in Fetchers |-> IdleFetch]
    /\ controller \in OpenPages(cacheStorage)
    /\ prev = "idle"
    /\ PageNotStarted

\* lines 35, 48: what the listeners write to the console
LogLine(message, detail) == [message |-> message, detail |-> detail]
CacheFailed == LogLine("Service Worker: Cache failed", "error")
DeletingOldCache(cacheName) == LogLine("Service Worker: Deleting old cache", cacheName)

\* lines 28-37: the promise given to event.waitUntil; the catch handler
\* turns a rejection of caches.open or cache.addAll into a fulfilment
InstallPromiseNoCatch(rejected) == IF rejected THEN "rejected" ELSE "fulfilled"
InstallPromise(rejected) == "fulfilled"

\* line 38: self.skipWaiting()
SkipWaitingOmitted == FALSE
SkipWaitingCalled == TRUE

\* lines 27-39: the install listener runs; caches.open and the requests of
\* cache.addAll are under way
InstallEvent ==
    /\ swState = "parsed"
    /\ swState' = "installing"
    /\ cacheStorage' = CachesOpen(cacheStorage, CACHE_NAME)
    /\ addAllCalls' = addAllCalls + 1
    /\ manifestFetch' \in ManifestAnswers
    /\ skipWaiting' = SkipWaitingCalled
    /\ UNCHANGED <<proxyVars, normVars, pageVars, swLog, claimed, cacheNames, fh, controller, prev>>

\* lines 32-37: cache.addAll settles, and with it the install event
InstallSettle ==
    /\ swState = "installing"
    /\ cacheStorage' = CacheAddAll(cacheStorage, CACHE_NAME, manifestFetch)
    /\ swLog' = IF AddAllRejects(manifestFetch)
                THEN swLog \cup {CacheFailed}
                ELSE swLog
    /\ swState' = IF InstallPromise(AddAllRejects(manifestFetch)) = "fulfilled"
                  THEN "installed" ELSE "redundant"
    /\ manifestFetch' = NoFetch
    /\ UNCHANGED <<proxyVars, normVars, pageVars, addAllCalls, skipWaiting, claimed, cacheNames, fh,
                   controller, prev>>

\* line 47: cacheName !== CACHE_NAME
ShouldDeleteAny(cacheName) == TRUE
ShouldDelete(cacheName) == cacheName # CACHE_NAME

\* lines 45-52: caches.delete for every name of cacheNames that line 47 selects
RECURSIVE DeleteStale(_, _)
DeleteStale(storage, names) ==
    IF names = <<>>
    THEN storage
    ELSE DeleteStale(IF ShouldDelete(Head(names))
                     THEN CachesDelete(storage, Head(names))
                     ELSE storage,
                     Tail(names))

\* An installed worker waits while a page is controlled by the previous
\* version, unless self.skipWaiting() was called (line 38).
Waits(flag, pages) == ~flag /\ \E p \in DOMAIN pages : pages[p] = "previous"

\* line 55: self.clients.claim()
ClientsClaim(pages) == [p \in DOMAIN pages |-> "current"]

\* lines 42-56: the activate listener runs; caches.keys() resolves
ActivateEvent ==
    /\ swState = "installed"
    /\ ~Waits(skipWaiting, controller)
    /\ swState' = "activating"
    /\ cacheNames' = CachesKeys(cacheStorage)
    /\ claimed' = TRUE
    /\ controller' = ClientsClaim(controller)
    /\ UNCHANGED <<proxyVars, normVars, pageVars, cacheStorage, manifestFetch, addAllCalls,
                   swLog, skipWaiting, fh, prev>>

\* lines 45-53: the deletions settle, and with them the activate event
ActivateSettle ==
    /\ swState = "activating"
    /\ cacheStorage' = DeleteStale(cacheStorage, cacheNames)
    /\ swLog' = swLog \cup { DeletingOldCache(cacheNames[k]) :
                                k \in { j \in 1..Len(cacheNames) : ShouldDelete(cacheNames[j]) } }
    /\ cacheNames' = <<>>
    /\ swState' = "activated"
    /\ UNCHANGED <<proxyVars, normVars, pageVars, manifestFetch, addAllCalls,
                   skipWaiting, claimed, fh, controller, prev>>

\* line 61: event.request.method !== 'GET'
NotGet(request) == request.method # "GET"

\* line 66: !event.request.url.startsWith(self.location.origin)
External(request) ==
    ~(/\ Len(request.url) >= Len(LocationOrigin)
      /\ SubSeq(request.url, 1, Len(LocationOrigin)) = LocationOrigin)

\* line 82: !response || response.status !== 200 || response.type !== 'basic'
NotCacheableStatusOnly(response) == response.status # 200
NotCacheableEver(response) == TRUE
NotCacheable(response) == response.status # 200 \/ response.type # "basic"

\* line 98: event.request.destination === 'document'
IsDocumentAlways(request) == TRUE
IsDocument(request) == request.destination = "document"

\* What the page gets when respondWith is given `value`.
RespondWith(value) == IF value = NoMatch THEN NetworkError ELSE value

LifecycleUnchanged ==
    UNCHANGED <<proxyVars, normVars, pageVars, swState, manifestFetch, addAllCalls, swLog,
                skipWaiting, claimed, cacheNames, controller, prev>>

\* lines 59-71: the fetch listener runs
FetchEvent(f) ==
    /\ swState = "activated"
    /\ fh[f].pc = "idle"
    /\ \E r \in Requests :
        fh' = [fh EXCEPT ![f] =
                 IF NotGet(r) \/ External(r)
                 THEN [IdleFetch EXCEPT !.pc = "done", !.request = r]
                 ELSE [IdleFetch EXCEPT !.pc = "match", !.request = r,
                                        !.respondWith = TRUE, !.matches = 1]]
    /\ UNCHANGED cacheStorage
    /\ LifecycleUnchanged

\* lines 72-79: caches.match(event.request) resolves
MatchSettle(f) ==
    /\ fh[f].pc = "match"
    /\ LET cachedResponse == CachesMatch(cacheStorage, fh[f].request.url)
       IN  fh' = [fh EXCEPT ![f] =
                    IF cachedResponse # NoMatch
                    THEN [@ EXCEPT !.pc = "done", !.response = cachedResponse]
                    ELSE [@ EXCEPT !.pc = "fetch", !.fetches = @ + 1]]
    /\ UNCHANGED cacheStorage
    /\ LifecycleUnchanged

NetworkSettleFallbackOnStatus(f) ==
    /\ fh[f].pc = "fetch"
    /\ \E response \in NetResponses(fh[f].request) :
            fh' = [fh EXCEPT ![f] =
                     IF response.status # 200 /\ IsDocument(fh[f].request)
                     THEN [@ EXCEPT !.pc = "fallback", !.matches = @ + 1,
                                    !.response = response]
                     ELSE IF NotCacheable(response)
                     THEN [@ EXCEPT !.pc = "done", !.response = response]
                     ELSE [@ EXCEPT !.pc = "put", !.response = response]]
    /\ UNCHANGED cacheStorage
    /\ LifecycleUnchanged
NetworkSettleRetry(f) ==
    /\ fh[f].pc = "fetch"
    /\ fh[f].fetches < 3
    /\ fh' = [fh EXCEPT ![f].fetches = @ + 1]
    /\ UNCHANGED cacheStorage
    /\ LifecycleUnchanged
\* lines 79-101: fetch(event.request) settles
NetworkSettle(f) ==
    /\ fh[f].pc = "fetch"
    /\ \/ \E response \in NetResponses(fh[f].request) :
            fh' = [fh EXCEPT ![f] =
                     IF NotCacheable(response)
                     THEN [@ EXCEPT !.pc = "done", !.response = response]
                     ELSE [@ EXCEPT !.pc = "put", !.response = response]]
       \/ fh' = [fh EXCEPT ![f] =
                   IF IsDocument(fh[f].request)
                   THEN [@ EXCEPT !.pc = "fallback", !.matches = @ + 1]
                   ELSE [@ EXCEPT !.pc = "done", !.response = RespondWith(NoMatch)]]
    /\ UNCHANGED cacheStorage
    /\ LifecycleUnchanged

\* line 99: caches.match('/index.html') resolves
FallbackSettle(f) ==
    /\ fh[f].pc = "fallback"
    /\ fh' = [fh EXCEPT ![f] =
                [@ EXCEPT !.pc = "done",
                          !.response = RespondWith(
                              CachesMatch(cacheStorage, Url(LocationOrigin, "/index.html")))]]
    /\ UNCHANGED cacheStorage
    /\ LifecycleUnchanged

\* lines 89-92: caches.open(CACHE_NAME) and cache.put settle; the page has
\* the response since line 94.  The write is awaited by nothing: it may fail.
PutSettleAwaited(f) ==
    /\ fh[f].pc = "put"
    /\ \/ /\ cacheStorage' = CachePut(CachesOpen(cacheStorage, CACHE_NAME), CACHE_NAME,
                                      fh[f].request.url, fh[f].response)
          /\ fh' = [fh EXCEPT ![f].pc = "done"]
       \/ /\ UNCHANGED cacheStorage
          /\ fh' = [fh EXCEPT ![f].pc = "done", ![f].response = NetworkError]
    /\ LifecycleUnchanged
PutSettle(f) ==
    /\ fh[f].pc = "put"
    /\ \/ cacheStorage' = CachePut(CachesOpen(cacheStorage, CACHE_NAME), CACHE_NAME,
                                   fh[f].request.url, fh[f].response)
       \/ UNCHANGED cacheStorage
    /\ fh' = [fh EXCEPT ![f].pc = "done"]
    /\ LifecycleUnchanged

\* The page has its answer; the event is over.
FetchDone(f) ==
    /\ fh[f].pc = "done"
    /\ fh' = [fh EXCEPT ![f] = IdleFetch]
    /\ UNCHANGED cacheStorage
    /\ LifecycleUnchanged

NextSW ==
    \/ InstallEvent
    \/ InstallSettle
    \/ ActivateEvent
    \/ ActivateSettle
    \/ \E f \in Fetchers : FetchEvent(f)
    \/ \E f \in Fetchers : MatchSettle(f)
    \/ \E f \in Fetchers : NetworkSettle(f)
    \/ \E f \in Fetchers : FallbackSettle(f)
    \/ \E f \in Fetchers : PutSettle(f)
    \/ \E f \in Fetchers : FetchDone(f)

SpecSW == InitSW /\ [][NextSW]_vars

----------------------------------------------------------------------------
\* The asset worker while it replaces the worker of the previous version

\* The page a listener of the previous version is asked for.
PreviousRequest == Request("GET", Url(LocationOrigin, "/about.html"), "document")

\* lines 59-94, run by the worker of the previous version for a page it
\* controls: the request is in no cache, its fetch is answered 200, the
\* response is returned and the cache write (lines 89-92) is under way.
PrevFetch ==
    /\ prev = "idle"
    /\ \E p \in Pages : controller[p] = "previous"
    /\ CachesMatch(cacheStorage, PreviousRequest.url) = NoMatch
    /\ prev' = "put"
    /\ UNCHANGED <<proxyVars, normVars, pageVars, swState, cacheStorage, manifestFetch, addAllCalls,
                   swLog, skipWaiting, claimed, cacheNames, fh, controller>>

\* lines 89-92, in the worker of the previous version: caches.open of its
\* own cache name and cache.put settle; the write is awaited by nothing and
\* may fail.
PrevPutSettle ==
    /\ prev = "put"
    /\ \/ cacheStorage' = CachePut(CachesOpen(cacheStorage, PREVIOUS_CACHE_NAME),
                                   PREVIOUS_CACHE_NAME, PreviousRequest.url,
                                   NetResponse(200, "basic", "v1"))
       \/ UNCHANGED cacheStorage
    /\ prev' = "idle"
    /\ UNCHANGED <<proxyVars, normVars, pageVars, swState, manifestFetch, addAllCalls,
                   swLog, skipWaiting, claimed, cacheNames, fh, controller>>

NextUpdate ==
    \/ InstallEvent
    \/ InstallSettle
    \/ ActivateEvent
    \/ ActivateSettle
    \/ PrevFetch
    \/ PrevPutSettle
    \/ \E f \in Fetchers : FetchEvent(f)
    \/ \E f \in Fetchers : MatchSettle(f)
    \/ \E f \in Fetchers : NetworkSettle(f)
    \/ \E f \in Fetchers : FallbackSettle(f)
    \/ \E f \in Fetchers : PutSettle(f)
    \/ \E f \in Fetchers : FetchDone(f)

SpecUpdate == InitSW /\ [][NextUpdate]_vars

\* The update alone: the events of the worker's life and the listener of the
\* previous version.  The browser runs every task it has queued: a settled
\* promise is handled, and a worker that may activate is activated.
NextLife ==
    \/ InstallEvent
    \/ InstallSettle
    \/ ActivateEvent
    \/ ActivateSettle
    \/ PrevFetch
    \/ PrevPutSettle

SpecLife ==
    /\ InitSW
    /\ [][NextLife]_vars
    /\ WF_vars(InstallSettle)
    /\ WF_vars(ActivateEvent)
    /\ WF_vars(ActivateSettle)

----------------------------------------------------------------------------
\* The two components side by side.  The review proxy runs in a function
\* process of the host, the asset worker in a browser; they share no state,
\* so every behaviour of the two is a behaviour of the one beside a behaviour
\* of the other.  NextEither lets the one run while the other has not begun.

ProxyNotStarted ==
    /\ cached = Null
    /\ cacheTime = 0
    /\ now = StartMs
    /\ pc = [i \in Inv |-> "idle"]
    /\ event = [i \in Inv |-> ""]
    /\ envKey = [i \in Inv |-> ""]
    /\ calls = [i \in Inv |-> 0]
    /\ res = [i \in Inv |-> NoRes]
    /\ data = [i \in Inv |-> NoData]
    /\ err = [i \in Inv |-> ""]
    /\ resp = [i \in Inv |-> NoResp]

NextEither ==
    \/ WorkerNotStarted /\ Tick
    \/ \E i \in Inv : WorkerNotStarted /\ Begin(i)
    \/ \E i \in Inv : WorkerNotStarted /\ FetchResolve(i)
    \/ \E i \in Inv : WorkerNotStarted /\ JsonResolve(i)
    \/ \E i \in Inv : WorkerNotStarted /\ Return(i)
    \/ ProxyNotStarted /\ InstallEvent
    \/ ProxyNotStarted /\ InstallSettle
    \/ ProxyNotStarted /\ ActivateEvent
    \/ ProxyNotStarted /\ ActivateSettle
    \/ \E f \in Fetchers : ProxyNotStarted /\ FetchEvent(f)
    \/ \E f \in Fetchers : ProxyNotStarted /\ MatchSettle(f)
    \/ \E f \in Fetchers : ProxyNotStarted /\ NetworkSettle(f)
    \/ \E f \in Fetchers : ProxyNotStarted /\ FallbackSettle(f)
    \/ \E f \in Fetchers : ProxyNotStarted /\ PutSettle(f)
    \/ \E f \in Fetchers : ProxyNotStarted /\ FetchDone(f)

SpecEither == Init /\ [][NextEither]_vars

----------------------------------------------------------------------------
\* Properties

\* Invocation i takes its first step: the handler is called.
BeginStep(i) == pc[i] = "idle" /\ pc'[i] # "idle"

SlotUnchanged == cached' = cached /\ cacheTime' = cacheTime

\* body is the JSON text of {error, reviews: []}
ErrorBody(b) ==
    /\ Has(b, "json")
    /\ Has(b.json, "error")
    /\ Has(b.json, "reviews")
    /\ b.json.reviews = <<>>

\* In this step res.json() of invocation i resolves to a body the mapping of
\* lines 47-53 accepts.
UpstreamSucceeds(i) ==
    /\ pc[i] = "awaitJson"
    /\ data'[i] # NoData
    /\ data'[i] # Null
    /\ \A k \in 1..Len(ReviewsOf(data'[i])) : ReviewsOf(data'[i])[k] # Null

\* C1: a non-OPTIONS request that finds the slot populated and younger than
\* one hour returns 200 with the cached payload as its body, issues no
\* upstream call and leaves the slot as it is.
C1_FreshHitServedFromCache ==
    [][\A i \in Inv :
        (/\ BeginStep(i)
         /\ event'[i] # "OPTIONS"
         /\ cached # Null
         /\ now - cacheTime < 60 * 60 * 1000)
        => /\ pc'[i] = "done"
           /\ resp'[i].statusCode = 200
           /\ resp'[i].body = JSONstringify(cached)
           /\ calls'[i] = 0
           /\ SlotUnchanged]_vars

\* A request without credential answered from an entry fetched 30 minutes ago.
C1_Witness ==
    \E i \in Inv :
        /\ pc[i] = "done"
        /\ event[i] = "GET"
        /\ envKey[i] = ""
        /\ calls[i] = 0
        /\ resp[i].statusCode = 200
        /\ cached # Null
        /\ resp[i].body = JSONstringify(cached)
        /\ now - cacheTime = TickMs

\* C2 as stated, for the non-OPTIONS requests alone: with a missing credential
\* every request returns 500 with {error, reviews: []} and no upstream call,
\* whatever the cache state.  (An OPTIONS request refutes the statement too:
\* it returns 204.)
C2_MissingKeyAlways500 ==
    \A i \in Inv :
        (pc[i] = "done" /\ event[i] # "OPTIONS" /\ envKey[i] = "")
        => /\ resp[i].statusCode = 500
           /\ ErrorBody(resp[i].body)
           /\ calls[i] = 0

\* C2 amended: with a missing credential no request issues an upstream call;
\* an OPTIONS request returns 204, a request that finds a fresh entry returns
\* 200 with the cached payload, and every other request returns 500 with
\* {error, reviews: []}.
C2_MissingKeyNeverCallsUpstream ==
    [][\A i \in Inv :
        (BeginStep(i) /\ envKey'[i] = "")
        => /\ pc'[i] = "done"
           /\ calls'[i] = 0
           /\ IF event'[i] = "OPTIONS"
              THEN resp'[i].statusCode = 204
              ELSE IF cached # Null /\ now - cacheTime < 60 * 60 * 1000
              THEN /\ resp'[i].statusCode = 200
                   /\ resp'[i].body = JSONstringify(cached)
              ELSE /\ resp'[i].statusCode = 500
                   /\ ErrorBody(resp'[i].body)]_vars

\* A request without credential refused while the slot holds a stale entry.
C2_Witness ==
    \E i \in Inv :
        /\ pc[i] = "done"
        /\ event[i] = "GET"
        /\ envKey[i] = ""
        /\ resp[i].statusCode = 500
        /\ calls[i] = 0
        /\ cached # Null
        /\ now - cacheTime >= 60 * 60 * 1000

\* C3: a non-OPTIONS request with a credential that finds the slot populated
\* and at least one hour old issues an upstream call; when that call succeeds
\* the slot becomes the newly normalized payload with cacheTime = now and the
\* 200 response carries that payload.
C3_StaleSlotRefetched ==
    [][\A i \in Inv :
        /\ (/\ BeginStep(i)
            /\ event'[i] # "OPTIONS"
            /\ envKey'[i] # ""
            /\ cached # Null
            /\ now - cacheTime >= 60 * 60 * 1000)
           => /\ pc'[i] = "awaitFetch"
              /\ calls'[i] = calls[i] + 1
        /\ UpstreamSucceeds(i)
           => /\ pc'[i] = "done"
              /\ cached' = [reviews |-> NormalizeList(ReviewsOf(data'[i]))]
              /\ cacheTime' = now
              /\ resp'[i].statusCode = 200
              /\ resp'[i].body = JSONstringify(cached')]_vars

\* A refresh at the instant its response is made: invocation i wrote the slot
\* now, two clock advances or more after the process start, while invocation j
\* still holds the response it was given from the entry that was replaced.
C3_Witness ==
    \E i, j \in Inv :
        /\ pc[i] = "done"
        /\ calls[i] = 1
        /\ resp[i].statusCode = 200
        /\ cacheTime = now
        /\ now >= StartMs + 2 * TickMs
        /\ resp[i].body = JSONstringify(cached)
        /\ Len(cached.reviews) = 2
        /\ pc[j] = "done"
        /\ calls[j] = 0
        /\ resp[j].statusCode = 200
        /\ resp[j].body # resp[i].body

\* C4: when the upstream call returns a non-2xx status S the handler returns
\* status S with {error, reviews: []}, and neither the step that issued the
\* call nor the one that returns changes the slot.
C4_UpstreamErrorPropagated ==
    [][\A i \in Inv :
        /\ (pc[i] = "idle" /\ pc'[i] = "awaitFetch") => SlotUnchanged
        /\ (/\ pc[i] = "awaitFetch"
            /\ res'[i] # NoRes
            /\ (res'[i].status < 200 \/ res'[i].status > 299))
           => /\ pc'[i] = "done"
              /\ resp'[i].statusCode = res'[i].status
              /\ ErrorBody(resp'[i].body)
              /\ SlotUnchanged]_vars

\* An upstream 503 returned as 503 while the slot holds a stale entry.
C4_Witness ==
    \E i \in Inv :
        /\ pc[i] = "done"
        /\ res[i].status = 503
        /\ resp[i].statusCode = 503
        /\ cached # Null

\* C5: when the fetch rejects, res.json() rejects or the body is null, the
\* handler returns 500 with {error: err.message, reviews: []} and the slot
\* is unchanged.
C5_ExceptionReturns500 ==
    [][\A i \in Inv :
        /\ (pc[i] = "awaitJson" /\ data'[i] = Null) => err'[i] # ""
        /\ (pc[i] \in {"awaitFetch", "awaitJson"} /\ err'[i] # "")
           => /\ pc'[i] = "done"
              /\ resp'[i].statusCode = 500
              /\ resp'[i].body = JSONstringify([error |-> err'[i], reviews |-> <<>>])
              /\ SlotUnchanged]_vars

\* A body that cannot be mapped, answered with 500 while the slot holds an entry.
C5_Witness ==
    \E i \in Inv :
        /\ pc[i] = "done"
        /\ data[i] = Null
        /\ err[i] # ""
        /\ resp[i].statusCode = 500
        /\ cached # Null

\* C6: an OPTIONS request returns 204 with an empty body and the CORS
\* headers, issues no upstream call and leaves the slot unchanged, in every
\* cache state and with or without a credential.
C6_OptionsAlways204 ==
    [][\A i \in Inv :
        (BeginStep(i) /\ event'[i] = "OPTIONS")
        => /\ pc'[i] = "done"
           /\ resp'[i].statusCode = 204
           /\ resp'[i].body = EmptyBody
           /\ resp'[i].headers.ACAO = "*"
           /\ resp'[i].headers.ACAH = "Content-Type"
           /\ calls'[i] = 0
           /\ SlotUnchanged]_vars

\* An OPTIONS request without credential answered while the slot is fresh.
C6_Witness ==
    \E i \in Inv :
        /\ pc[i] = "done"
        /\ event[i] = "OPTIONS"
        /\ envKey[i] = ""
        /\ resp[i].statusCode = 204
        /\ cached # Null
        /\ now - cacheTime < 60 * 60 * 1000

\* C7: a non-OPTIONS request with a credential that finds the slot empty
\* issues one upstream call, and never a second; when the call succeeds it
\* returns 200 with one review per upstream review, "Anonymous" and
\* "California" standing in for a missing name and location, and the slot
\* holds that payload.
C7_EmptySlotFetchesOnce ==
    [][\A i \in Inv :
        /\ (/\ BeginStep(i)
            /\ event'[i] # "OPTIONS"
            /\ envKey'[i] # ""
            /\ cached = Null)
           => /\ pc'[i] = "awaitFetch"
              /\ calls'[i] = 1
        /\ pc[i] \in {"awaitFetch", "awaitJson"} => calls'[i] = 1
        /\ UpstreamSucceeds(i)
           => /\ resp'[i].statusCode = 200
              /\ Has(resp'[i].body, "json")
              /\ cached' = resp'[i].body.json
              /\ LET up == ReviewsOf(data'[i])
                     out == resp'[i].body.json.reviews
                 IN  /\ Len(out) = Len(up)
                     /\ \A k \in 1..Len(up) :
                         /\ Has(up[k], "rating") => out[k].rating = up[k].rating
                         /\ ~(Has(up[k], "user") /\ Has(up[k].user, "name"))
                            => out[k].user.name = "Anonymous"
                         /\ ~(Has(up[k], "user") /\ Has(up[k].user, "location"))
                            => out[k].user.location = "California"
                         /\ (Has(up[k], "user") /\ Has(up[k].user, "name")
                                /\ up[k].user.name # "")
                            => out[k].user.name = up[k].user.name]_vars

\* The first fetch of the process returned: one call, two reviews, the one
\* without user carrying the defaults, the slot holding the same payload.
C7_Witness ==
    \E i \in Inv :
        /\ pc[i] = "done"
        /\ calls[i] = 1
        /\ resp[i].statusCode = 200
        /\ data[i] # NoData
        /\ ReviewsOf(data[i]) = <<ReviewFull, ReviewNoUser>>
        /\ resp[i].body.json.reviews[2].user = [name |-> "Anonymous", location |-> "California"]
        /\ resp[i].body.json.reviews[1].user.name = "Ann"
        /\ cached = resp[i].body.json
        /\ cacheTime = StartMs

\* C8: a non-OPTIONS request that finds no fresh entry and no credential
\* returns 500 with {error: "YELP_API_KEY not configured", reviews: []},
\* issues no upstream call and does not write the slot.
C8_ConfigErrorNotCached ==
    [][\A i \in Inv :
        (/\ BeginStep(i)
         /\ event'[i] # "OPTIONS"
         /\ ~(cached # Null /\ now - cacheTime < 60 * 60 * 1000)
         /\ envKey'[i] = "")
        => /\ pc'[i] = "done"
           /\ resp'[i].statusCode = 500
           /\ ErrorBody(resp'[i].body)
           /\ resp'[i].body.json.error = "YELP_API_KEY not configured"
           /\ calls'[i] = 0
           /\ SlotUnchanged]_vars

\* The configuration error returned while the slot is still empty.
C8_Witness ==
    \E i \in Inv :
        /\ pc[i] = "done"
        /\ event[i] = "GET"
        /\ envKey[i] = ""
        /\ resp[i].statusCode = 500
        /\ cached = Null
        /\ cacheTime = 0

\* C9: every response to a non-OPTIONS request carries
\* Access-Control-Allow-Origin: * and a JSON body with a reviews list; a
\* response whose status is not 200 has an error field and reviews = [], and
\* a 200 response has no error field.
C9_ResponseShape ==
    \A i \in Inv :
        (pc[i] = "done" /\ event[i] # "OPTIONS")
        => /\ resp[i].headers.ACAO = "*"
           /\ Has(resp[i].body, "json")
           /\ Has(resp[i].body.json, "reviews")
           /\ resp[i].statusCode # 200 => ErrorBody(resp[i].body)
           /\ resp[i].statusCode = 200 => ~Has(resp[i].body.json, "error")

\* An upstream error and a success, both returned and not yet collected.
C9_Witness ==
    \E i, j \in Inv :
        /\ pc[i] = "done" /\ pc[j] = "done"
        /\ event[i] = "GET" /\ event[j] = "GET"
        /\ resp[i].statusCode = 503
        /\ resp[j].statusCode = 200
        /\ calls[j] = 1

\* A field of an upstream review is carried over as it is.
SameField(up, out, f) ==
    /\ Has(out, f) <=> Has(up, f)
    /\ Has(up, f) => out[f] = up[f]

\* C10 as stated: the normalized list has the length and order of the upstream
\* list, each element with rating, text, time_created and url unchanged, and
\* with the upstream name (location) when present, "Anonymous" ("California")
\* when absent.
C10_PresentNeverDefaulted ==
    normOut.applied =>
        /\ Len(normOut.reviews) = Len(normIn)
        /\ \A k \in 1..Len(normIn) :
            LET up == normIn[k]
                out == normOut.reviews[k]
            IN  /\ \A f \in {"rating", "text", "time_created", "url"} : SameField(up, out, f)
                /\ out.user.name =
                     IF Has(up, "user") /\ Has(up.user, "name")
                     THEN up.user.name ELSE "Anonymous"
                /\ out.user.location =
                     IF Has(up, "user") /\ Has(up.user, "location")
                     THEN up.user.location ELSE "California"

\* C10 amended: as above, but the upstream name (location) is kept when it is
\* present and not the empty string; an absent or empty name (location)
\* becomes "Anonymous" ("California").
C10_NormalizedList ==
    normOut.applied =>
        /\ Len(normOut.reviews) = Len(normIn)
        /\ \A k \in 1..Len(normIn) :
            LET up == normIn[k]
                out == normOut.reviews[k]
            IN  /\ \A f \in {"rating", "text", "time_created", "url"} : SameField(up, out, f)
                /\ DOMAIN out.user = {"name", "location"}
                /\ out.user.name =
                     IF Has(up, "user") /\ Has(up.user, "name") /\ up.user.name # ""
                     THEN up.user.name ELSE "Anonymous"
                /\ out.user.location =
                     IF Has(up, "user") /\ Has(up.user, "location") /\ up.user.location # ""
                     THEN up.user.location ELSE "California"

\* Two reviews normalized: one keeps its name and location, one without user
\* and without url gets both defaults.
C10_Witness ==
    /\ normOut.applied
    /\ Len(normIn) = 2
    /\ normIn[1] = [ReviewFull EXCEPT !.rating = 1]
    /\ normIn[2] = Restrict(ReviewFull, {"rating", "text", "time_created"})
    /\ normOut.reviews[1].user = [name |-> "Ann", location |-> "San Jose"]
    /\ normOut.reviews[1].rating = 1
    /\ normOut.reviews[2].user = [name |-> "Anonymous", location |-> "California"]
    /\ ~Has(normOut.reviews[2], "url")

----------------------------------------------------------------------------
\* Properties of the asset worker

PathOf(url) == url[Len(url)]
RootDocument == Url(LocationOrigin, "/index.html")

\* A GET request of the worker's origin for a path of the manifest.
ManifestRequest(r) ==
    /\ r.method = "GET"
    /\ r.url # <<>>
    /\ OriginOf(r.url) = LocationOrigin
    /\ PathOf(r.url) \in STATIC_ASSETS

\* Fetch handler f takes a step from `at`.
FetchStep(f, at) == fh[f].pc = at /\ fh'[f] # fh[f]

\* The install step stored the manifest and the worker is active.
InstalledAndActive == swState = "activated" /\ CacheFailed \notin swLog

\* C11: after a successful install and activation, a same-origin GET for a
\* manifest path is handled by the worker and resolves from the cache with no
\* network fetch, whatever the network would answer; and a document request
\* that is not cached and whose fetch fails is answered with the cached root
\* document.
C11_ManifestServedFromCache ==
    [][InstalledAndActive =>
        \A f \in Fetchers :
            /\ (FetchStep(f, "idle") /\ ManifestRequest(fh'[f].request))
               => fh'[f].pc = "match" /\ fh'[f].respondWith
            /\ (FetchStep(f, "match") /\ ManifestRequest(fh[f].request))
               => /\ fh'[f].pc = "done"
                  /\ fh'[f].response =
                        CacheMatch(EntriesOf(cacheStorage, CACHE_NAME), fh[f].request.url)
                  /\ fh'[f].response # NoMatch
                  /\ fh'[f].fetches = 0
            /\ FetchStep(f, "fallback")
               => /\ fh'[f].pc = "done"
                  /\ fh'[f].response =
                        CacheMatch(EntriesOf(cacheStorage, CACHE_NAME), RootDocument)
                  /\ Has(fh'[f].response, "status")]_vars

\* One page got the cached stylesheet without a fetch, another the cached
\* root document for a page whose fetch failed.
C11_Witness ==
    /\ InstalledAndActive
    /\ \E f, g \in Fetchers :
        /\ fh[f].pc = "done"
        /\ ManifestRequest(fh[f].request)
        /\ fh[f].fetches = 0
        /\ Has(fh[f].response, "status")
        /\ fh[g].pc = "done"
        /\ fh[g].request.destination = "document"
        /\ fh[g].fetches = 1
        /\ fh[g].matches = 2
        /\ fh[g].response = CacheMatch(EntriesOf(cacheStorage, CACHE_NAME), RootDocument)
        /\ Has(fh[g].response, "status")

\* C12: when the activate step completes, every cache whose name is not
\* CACHE_NAME is deleted, the cache named CACHE_NAME is kept with its entries,
\* and from then on caches.keys() enumerates CACHE_NAME alone, whichever
\* caches were there before.
C12_OnlyCurrentCacheRemains ==
    [][/\ (swState = "activating" /\ swState' = "activated")
          => /\ \A n \in NamesOf(cacheStorage) \ {CACHE_NAME} :
                    n \notin NamesOf(cacheStorage')
             /\ CACHE_NAME \in NamesOf(cacheStorage')
             /\ EntriesOf(cacheStorage', CACHE_NAME) = EntriesOf(cacheStorage, CACHE_NAME)
       /\ swState' = "activated" => CachesKeys(cacheStorage') = <<CACHE_NAME>>]_vars

\* Activation found the caches of two earlier versions beside the current
\* one, and the current one, with the manifest in it, is all that is left.
C12_Witness ==
    /\ swState = "activated"
    /\ DeletingOldCache("ruzanova-fitness-v3") \in swLog
    /\ DeletingOldCache("ruzanova-fitness-v2") \in swLog
    /\ CachesKeys(cacheStorage) = <<CACHE_NAME>>
    /\ \A p \in STATIC_ASSETS :
         CacheMatch(EntriesOf(cacheStorage, CACHE_NAME), Url(LocationOrigin, p)) # NoMatch

\* The worker leaves the request of handler f to the browser: no respondWith,
\* no cache read, no fetch of its own, no cache write.
PassedThrough(f) ==
    /\ fh'[f].pc = "done"
    /\ ~fh'[f].respondWith
    /\ fh'[f].matches = 0
    /\ fh'[f].fetches = 0
    /\ cacheStorage' = cacheStorage

\* C13: every request whose method is not GET, and every request whose origin
\* differs from the worker's own origin, is passed through untouched: no
\* respondWith, no cache read, no cache write.  Line 66 compares the URL's
\* text with the origin's text, so a GET to an origin whose text begins with
\* the worker's origin (https://ruzanovafit.com.example.net) is handled as the
\* worker's own.
C13_OtherOriginPassedThrough ==
    [][\A f \in Fetchers :
        (/\ FetchStep(f, "idle")
         /\ \/ fh'[f].request.method # "GET"
            \/ OriginOf(fh'[f].request.url) # LocationOrigin)
        => PassedThrough(f)]_vars

RequestUrls == { r.url : r \in Requests }

\* The entry the current cache holds for url, or NoMatch.
CurrentEntry(url) == CacheMatch(EntriesOf(cacheStorage, CACHE_NAME), url)

\* A handler that missed on url has its fetch or its cache write under way.
MissInFlight(url) ==
    \E f \in Fetchers : fh[f].request.url = url /\ fh[f].pc \in {"fetch", "put"}

\* C14, as stated: once the cache holds an entry for a URL, the entry served
\* for that URL stays the same across all later requests under the same
\* cache version.
C14_EntryNeverChanges ==
    [][\A url \in RequestUrls :
        (swState = "activated" /\ CurrentEntry(url) # NoMatch)
        => CurrentEntry(url)' = CurrentEntry(url)]_vars

\* C14: a request of the worker's origin that has an entry in the cache is
\* answered with that entry, with no network fetch and no cache write; the
\* entry of a URL is replaced only while a handler that missed on that URL has
\* its fetch or its write still under way, and no handler starts a fetch for a
\* URL that has an entry: once no such handler is left the entry stays.
C14_CacheFirst ==
    [][swState = "activated" =>
        /\ \A f \in Fetchers :
            (FetchStep(f, "match") /\ CurrentEntry(fh[f].request.url) # NoMatch)
            => /\ fh'[f].pc = "done"
               /\ fh'[f].response = CurrentEntry(fh[f].request.url)
               /\ fh'[f].fetches = 0
               /\ cacheStorage' = cacheStorage
        /\ cacheStorage' # cacheStorage
           => \A e \in EntriesOf(cacheStorage, CACHE_NAME) :
                 CurrentEntry(e.url)' # e.response => MissInFlight(e.url)
        /\ \A f \in Fetchers :
            (fh[f].pc # "fetch" /\ fh'[f].pc = "fetch")
            => CurrentEntry(fh'[f].request.url) = NoMatch]_vars

\* Two pages were served the same entry of a page that an earlier miss stored.
C14_Witness ==
    /\ swState = "activated"
    /\ \E f, g \in Fetchers :
        /\ f # g
        /\ fh[f].pc = "done" /\ fh[g].pc = "done"
        /\ fh[f].request.url = fh[g].request.url
        /\ PathOf(fh[f].request.url) \notin STATIC_ASSETS
        /\ fh[f].fetches = 0 /\ fh[g].fetches = 0
        /\ fh[f].response = CurrentEntry(fh[f].request.url)
        /\ fh[g].response = fh[f].response
        /\ Has(fh[f].response, "status")

\* C15: a request of the worker's origin with no cache entry is fetched from
\* the network; a response with status 200 and type "basic" is returned to
\* the page and its copy is written, without being awaited, to the cache
\* named CACHE_NAME under the request's URL, touching no other entry; the
\* entry stays, so that a request for the URL after the write is a cache hit.
C15_MissFetchedAndStored ==
    [][swState = "activated" =>
        \A f \in Fetchers :
            /\ (FetchStep(f, "match") /\ CurrentEntry(fh[f].request.url) = NoMatch)
               => /\ fh'[f].pc = "fetch"
                  /\ fh'[f].fetches = 1
                  /\ cacheStorage' = cacheStorage
            /\ (/\ FetchStep(f, "fetch")
                /\ Has(fh'[f].response, "status")
                /\ fh'[f].response.status = 200
                /\ fh'[f].response.type = "basic")
               => /\ fh'[f].pc = "put"
                  /\ fh'[f].response \in NetResponses(fh[f].request)
            /\ (FetchStep(f, "put") /\ cacheStorage' # cacheStorage)
               => /\ CurrentEntry(fh[f].request.url)' = fh[f].response
                  /\ CachesKeys(cacheStorage') = <<CACHE_NAME>>
                  /\ { e \in EntriesOf(cacheStorage', CACHE_NAME) : e.url # fh[f].request.url }
                        = { e \in EntriesOf(cacheStorage, CACHE_NAME) : e.url # fh[f].request.url }
            /\ (FetchStep(f, "match") /\ CurrentEntry(fh[f].request.url) # NoMatch)
               => fh'[f].pc = "done" /\ fh'[f].fetches = 0
            /\ cacheStorage' # cacheStorage
               => \A e \in EntriesOf(cacheStorage, CACHE_NAME) :
                     CurrentEntry(e.url)' # NoMatch]_vars

\* A page got the network's response for a page outside the manifest, the
\* copy is in the cache, and a later request for it was answered from there.
C15_Witness ==
    /\ swState = "activated"
    /\ \E f, g \in Fetchers :
        /\ fh[g].pc = "done"
        /\ PathOf(fh[g].request.url) \notin STATIC_ASSETS
        /\ fh[g].fetches = 1
        /\ fh[g].matches = 1
        /\ fh[g].response = NetResponse(200, "basic", "v2")
        /\ CurrentEntry(fh[g].request.url) = fh[g].response
        /\ fh[f].pc = "done"
        /\ fh[f].request.url = fh[g].request.url
        /\ fh[f].fetches = 0
        /\ fh[f].response = fh[g].response

\* C16: when the request is not cached and its fetch fails, a document
\* request is answered with the cached root document if the cache holds it;
\* a request that is not for a document, and a document request when the
\* root document is not cached, end as a failed fetch for the page.
C16_OfflineFallback ==
    [][swState = "activated" =>
        \A f \in Fetchers :
            /\ (FetchStep(f, "fetch") /\ ~Has(fh'[f].response, "status"))
               => IF fh[f].request.destination = "document"
                  THEN /\ fh'[f].pc = "fallback"
                       /\ fh'[f].response = NoMatch
                  ELSE /\ fh'[f].pc = "done"
                       /\ fh'[f].response = NetworkError
            /\ FetchStep(f, "fallback")
               => /\ fh'[f].pc = "done"
                  /\ fh'[f].response =
                        IF CurrentEntry(RootDocument) # NoMatch
                        THEN CurrentEntry(RootDocument)
                        ELSE NetworkError
                  /\ cacheStorage' = cacheStorage]_vars

\* The manifest was not stored.  A stylesheet whose fetch failed ended as a
\* failed fetch; a page whose fetch failed ended as a failed fetch too, as no
\* root document is cached.
C16_Witness ==
    /\ swState = "activated"
    /\ CurrentEntry(RootDocument) = NoMatch
    /\ \E f, g \in Fetchers :
        /\ fh[f].pc = "done"
        /\ fh[f].request.destination = "style"
        /\ fh[f].fetches = 1
        /\ fh[f].matches = 1
        /\ fh[f].response = NetworkError
        /\ fh[g].pc = "done"
        /\ fh[g].request.destination = "document"
        /\ fh[g].fetches = 1
        /\ fh[g].matches = 2
        /\ fh[g].response = NetworkError

\* C17: if the fetch of any manifest path fails, the population of the install
\* step fails as a whole: no entry of this install is stored; the failure is
\* logged; population is not attempted again; and the worker is not made
\* redundant by it: its install event completes.
C17_InstallAllOrNothing ==
    [][/\ (swState = "installing" /\ swState' # "installing" /\ AddAllRejects(manifestFetch))
          => /\ cacheStorage' = cacheStorage
             /\ CacheFailed \in swLog'
             /\ swState' = "installed"
       /\ CacheFailed \in swLog
          => /\ CacheFailed \in swLog'
             /\ addAllCalls = 1
             /\ addAllCalls' = addAllCalls
             /\ swState' \in {"installed", "activating", "activated"}]_vars

\* One manifest fetch failed: the worker is active, its cache is empty, the
\* failure is on the console, and addAll was called once.
C17_Witness ==
    /\ swState = "activated"
    /\ CacheFailed \in swLog
    /\ addAllCalls = 1
    /\ CachesKeys(cacheStorage) = <<CACHE_NAME>>
    /\ EntriesOf(cacheStorage, CACHE_NAME) = {}
    /\ \A f \in Fetchers : fh[f].pc = "idle"

----------------------------------------------------------------------------
\* Properties of the review proxy's slot

\* c is a payload as lines 47-54 build it: {reviews}, every review carrying
\* a user with a name and a location, and no error field.
NormalizedPayload(c) ==
    /\ DOMAIN c = {"reviews"}
    /\ \A k \in 1..Len(c.reviews) :
        /\ Has(c.reviews[k], "user")
        /\ DOMAIN c.reviews[k].user = {"name", "location"}

\* The slot is empty, or stale at the time `now`.
SlotNotFresh == cached = Null \/ now - cacheTime >= 60 * 60 * 1000

\* Another invocation than i has returned a failure: a status that is
\* neither 200 nor the 204 of OPTIONS.
FailedBefore(i) ==
    \E j \in Inv \ {i} : pc[j] = "done" /\ resp[j].statusCode \notin {200, 204}

\* C18, as stated: after a failed request, the next non-OPTIONS request that
\* finds the slot not fresh calls upstream again.
C18_FailedRequestAlwaysRetried ==
    [][\A i \in Inv :
        (BeginStep(i) /\ event'[i] # "OPTIONS" /\ SlotNotFresh /\ FailedBefore(i))
        => calls'[i] = 1]_vars

\* C18: the slot is empty or holds the normalized payload of an upstream
\* fetch that was answered 2xx and parsed; the steps that end in a
\* configuration error, an upstream error status, a failed fetch or an
\* exception leave the slot as it is; so after a failed request, a
\* non-OPTIONS request that has a credential and finds the slot not fresh
\* calls upstream again.
C18_OnlySuccessStored ==
    [][/\ cached' = Null \/ NormalizedPayload(cached')
       /\ \A i \in Inv :
            (pc'[i] = "done" /\ pc[i] # "done" /\ resp'[i].statusCode # 200)
            => SlotUnchanged
       /\ ~SlotUnchanged
          => \E i \in Inv :
                /\ pc[i] = "awaitJson"
                /\ res[i].status >= 200 /\ res[i].status <= 299
                /\ data'[i] # NoData /\ data'[i] # Null
                /\ resp'[i].statusCode = 200
                /\ cached' = resp'[i].body.json
                /\ Len(cached'.reviews) = Len(ReviewsOf(data'[i]))
       /\ \A i \in Inv :
            (/\ BeginStep(i)
             /\ event'[i] # "OPTIONS"
             /\ envKey'[i] # ""
             /\ SlotNotFresh
             /\ FailedBefore(i))
            => /\ pc'[i] = "awaitFetch"
               /\ calls'[i] = 1]_vars

\* Invocation j was answered 503 by upstream and returned it; the slot is
\* still empty and invocation i has its own call under way.
C18_Witness ==
    \E i, j \in Inv :
        /\ pc[j] = "done"
        /\ calls[j] = 1
        /\ resp[j].statusCode = 503
        /\ ErrorBody(resp[j].body)
        /\ cached = Null
        /\ pc[i] = "awaitFetch"
        /\ calls[i] = 1

\* Another invocation than i is between its upstream call and its return.
OtherInFlight(i) == \E j \in Inv \ {i} : pc[j] \in {"awaitFetch", "awaitJson"}

\* C19: invocations that overlap and each find the slot not fresh each issue
\* an upstream call of their own, also while the call of another is under
\* way; each one whose fetch succeeds returns the payload it fetched itself;
\* and the slot is at every moment the whole payload of the invocation that
\* wrote last, with the time of that write.
C19_LastWriterWins ==
    [][\A i \in Inv :
        /\ (/\ BeginStep(i)
            /\ event'[i] # "OPTIONS"
            /\ envKey'[i] # ""
            /\ SlotNotFresh
            /\ OtherInFlight(i))
           => /\ pc'[i] = "awaitFetch"
              /\ calls'[i] = 1
              /\ \A j \in Inv \ {i} : calls'[j] = calls[j] /\ pc'[j] = pc[j]
        /\ UpstreamSucceeds(i)
           => /\ Has(resp'[i].body, "json")
              /\ Len(resp'[i].body.json.reviews) = Len(ReviewsOf(data'[i]))
              /\ \A k \in 1..Len(ReviewsOf(data'[i])) :
                    resp'[i].body.json.reviews[k].rating = ReviewsOf(data'[i])[k].rating
              /\ cached' = resp'[i].body.json
              /\ cacheTime' = now
              /\ \A j \in Inv \ {i} : resp'[j] = resp[j]
        /\ (pc'[i] # pc[i] /\ ~UpstreamSucceeds(i)) => SlotUnchanged]_vars

\* Two invocations overlapped, each made its call and returned the payload
\* it fetched, the two payloads differ, and the slot is one of them.
C19_Witness ==
    \E i, j \in Inv :
        /\ i # j
        /\ pc[i] = "done" /\ pc[j] = "done"
        /\ calls[i] = 1 /\ calls[j] = 1
        /\ resp[i].statusCode = 200 /\ resp[j].statusCode = 200
        /\ Len(resp[i].body.json.reviews) = 1
        /\ Len(resp[j].body.json.reviews) = 2
        /\ cached = resp[j].body.json
        /\ cached # resp[i].body.json
        /\ cacheTime = StartMs
        /\ now = StartMs

\* C20: the slot is empty when the process starts; it is one value, empty or
\* one payload; it is written only by an invocation whose upstream fetch was
\* answered 2xx and parsed, and that write replaces the payload and the time
\* together with what this invocation fetched; once it holds a payload it is
\* never empty again.
C20_SlotLifecycle ==
    /\ cached = Null /\ cacheTime = 0
    /\ [][/\ cached' = Null \/ DOMAIN cached' = {"reviews"}
          /\ cached # Null => cached' # Null
          /\ ~SlotUnchanged
             => \E i \in Inv :
                   /\ UpstreamSucceeds(i)
                   /\ res[i].status >= 200 /\ res[i].status <= 299
                   /\ pc'[i] = "done"
                   /\ cached' = [reviews |-> NormalizeList(ReviewsOf(data'[i]))]
                   /\ cacheTime' = now]_vars

\* An entry of two reviews, served to invocation i while it was fresh, has
\* been replaced by a later fetch that found no reviews: the slot holds the
\* payload with the empty list, not the old reviews and not null.
C20_Witness ==
    \E i \in Inv :
        /\ pc[i] = "done"
        /\ calls[i] = 0
        /\ resp[i].statusCode = 200
        /\ Has(resp[i].body, "json")
        /\ Len(resp[i].body.json.reviews) = 2
        /\ cached = [reviews |-> <<>>]
        /\ cacheTime > StartMs

----------------------------------------------------------------------------
\* Properties of the two components

\* C21: one invocation of the review proxy issues at most one upstream call,
\* and one intercepted request of the asset worker at most one network fetch;
\* an invocation whose call failed returns the failure with that one call
\* made, a fetch event whose fetch failed ends (or reads the cache for the
\* root document) with that one fetch made, and neither goes back to calling.
C21_NoRetry ==
    [][/\ \A i \in Inv :
            /\ calls'[i] <= 1
            /\ (pc[i] \in {"awaitFetch", "awaitJson"} /\ pc'[i] # pc[i] /\ resp'[i].statusCode # 0)
               => /\ pc'[i] = "done"
                  /\ calls'[i] = 1
            /\ pc[i] \in {"awaitJson", "done"} => pc'[i] # "awaitFetch"
       /\ \A f \in Fetchers :
            /\ fh'[f].fetches <= 1
            /\ (FetchStep(f, "fetch") /\ ~Has(fh'[f].response, "status"))
               => /\ fh'[f].pc \in {"done", "fallback"}
                  /\ fh'[f].fetches = 1
            /\ fh[f].pc \in {"put", "fallback", "done"} => fh'[f].pc # "fetch"]_vars

\* An invocation of the proxy returned the failure of its one call.
FailedAfterOneCall ==
    \E i \in Inv :
        /\ pc[i] = "done"
        /\ calls[i] = 1
        /\ resp[i].statusCode \in {500, 503}
        /\ ErrorBody(resp[i].body)

\* A fetch event of the worker ended as a failed fetch after its one fetch.
FailedAfterOneFetch ==
    \E f \in Fetchers :
        /\ fh[f].pc = "done"
        /\ fh[f].fetches = 1
        /\ fh[f].response = NetworkError

\* The two components do not run together here: a state shows the failed
\* attempt of the one or of the other.
C21_Witness == FailedAfterOneCall \/ FailedAfterOneFetch

----------------------------------------------------------------------------
\* Properties of the asset worker while it replaces the previous version

\* C22: from the moment the activation of the current version has completed,
\* in every later state and under every interleaving with fetch handling,
\* that of listeners of the previous version still in flight included, the
\* cache named CACHE_NAME is the only cache that exists.  A listener of the
\* previous version whose cache write (lines 89-92) settles after the
\* activation opens the cache of its own name again.
C22_OnlyCurrentCacheExists ==
    swState = "activated" => NamesOf(cacheStorage) = {CACHE_NAME}

\* A page is controlled by the worker of the previous version.
PreviousControls == \E p \in Pages : controller[p] = "previous"

\* C23: after its install event the worker does not stay waiting while pages
\* controlled by the previous version are open: it becomes active, and the
\* step that starts its activation takes control of every open page, with no
\* reload of the page.
C23_ActivatesAndClaims ==
    /\ (swState = "installing") ~> (swState = "activated")
    /\ (swState = "installed" /\ PreviousControls) ~> (swState = "activating")
    /\ [][(swState = "installed" /\ swState' # "installed")
          => /\ swState' = "activating"
             /\ \A p \in Pages : controller'[p] = "current"]_vars
    /\ [](swState \in {"activating", "activated"}
          => \A p \in Pages : controller[p] = "current")

\* The worker is active and controls every page, while a listener of the
\* previous version, started for a page that version controlled, is still
\* in flight.
C23_Witness ==
    /\ swState = "activated"
    /\ skipWaiting
    /\ claimed
    /\ \A p \in Pages : controller[p] = "current"
    /\ prev = "put"
    /\ DeletingOldCache(PREVIOUS_CACHE_NAME) \in swLog

\* The write of handler f's response into the current cache.
WriteOf(f) ==
    CachePut(CachesOpen(cacheStorage, CACHE_NAME), CACHE_NAME,
             fh[f].request.url, fh[f].response)

\* C24: the fetch-time cache write is best effort.  On a miss answered 200
\* basic the page gets the network response before the write has settled, and
\* the settling of the write, success or failure, leaves that response as it
\* is; a failed write leaves the cache as it was, and a request for a URL the
\* cache has no entry for goes to the network.
C24_WriteIsBestEffort ==
    [][swState = "activated" =>
        \A f \in Fetchers :
            /\ (FetchStep(f, "fetch") /\ fh'[f].pc = "put")
               => /\ fh'[f].response \in NetResponses(fh[f].request)
                  /\ fh'[f].response.status = 200
                  /\ fh'[f].response.type = "basic"
                  /\ cacheStorage' = cacheStorage
            /\ FetchStep(f, "put")
               => /\ fh'[f].pc = "done"
                  /\ fh'[f].response = fh[f].response
                  /\ fh'[f].response \in NetResponses(fh[f].request)
                  /\ cacheStorage' \in {cacheStorage, WriteOf(f)}
            /\ (FetchStep(f, "match") /\ CurrentEntry(fh[f].request.url) = NoMatch)
               => fh'[f].pc = "fetch" /\ fh'[f].fetches = 1]_vars

\* A handler has given the page the network's 200 response and its write
\* failed: the cache has no entry for the URL, and another handler asked for
\* the same URL has missed and is fetching it again.
C24_Witness ==
    /\ swState = "activated"
    /\ \E f, g \in Fetchers :
        /\ f # g
        /\ fh[f].pc = "done"
        /\ fh[f].fetches = 1
        /\ fh[f].response = NetResponse(200, "basic", "v1")
        /\ CurrentEntry(fh[f].request.url) = NoMatch
        /\ fh[g].request.url = fh[f].request.url
        /\ fh[g].pc = "fetch"
        /\ fh[g].fetches = 1

\* The entries of the current cache.
CurrentEntries == EntriesOf(cacheStorage, CACHE_NAME)

\* C25: a network response whose status is not 200 or whose type is not
\* "basic" is returned to the page and never stored, so every entry added to
\* the cache at fetch time is a status-200 basic response to a GET request of
\* the worker's origin.
C25_OnlyGoodResponsesStored ==
    [][swState = "activated" =>
        /\ \A f \in Fetchers :
            (/\ FetchStep(f, "fetch")
             /\ Has(fh'[f].response, "status")
             /\ (fh'[f].response.status # 200 \/ fh'[f].response.type # "basic"))
            => /\ fh'[f].pc = "done"
               /\ fh'[f].response \in NetResponses(fh[f].request)
               /\ cacheStorage' = cacheStorage
        /\ \A e \in CurrentEntries' \ CurrentEntries :
            /\ e.response.status = 200
            /\ e.response.type = "basic"
            /\ OriginOf(e.url) = LocationOrigin
            /\ \E f \in Fetchers :
                /\ FetchStep(f, "put")
                /\ fh[f].request.method = "GET"
                /\ fh[f].request.url = e.url
                /\ fh[f].response = e.response]_vars

\* One handler was answered 404 and gave that answer to the page, another
\* was answered 200 basic and stored it: the cache holds the second and has
\* no entry for the first.
C25_Witness ==
    /\ swState = "activated"
    /\ \E f, g \in Fetchers :
        /\ fh[f].pc = "done"
        /\ fh[f].fetches = 1
        /\ fh[f].response = NetResponse(404, "basic", "v1")
        /\ CurrentEntry(fh[f].request.url) = NoMatch
        /\ fh[g].pc = "done"
        /\ fh[g].fetches = 1
        /\ fh[g].response = NetResponse(200, "basic", "v2")
        /\ CurrentEntry(fh[g].request.url) = fh[g].response

\* The population of the cache at install time failed.
PopulationFailed == CacheFailed \in swLog

\* Handler f takes a step that gives the page a response read from the cache:
\* a hit at line 74, or the root document at line 99.
ServedFromCache(f) ==
    \/ FetchStep(f, "match") /\ fh'[f].pc = "done"
    \/ FetchStep(f, "fallback") /\ fh'[f].response # NetworkError

\* The URL of the entry the step ServedFromCache(f) reads.
ServedUrl(f) == IF fh[f].pc = "fallback" THEN RootDocument ELSE fh[f].request.url

\* The response handler f is given was fetched by the fetch listener.
FetchedAtRunTime(f) ==
    fh'[f].response \in NetResponses(Request("GET", ServedUrl(f), ""))

----------------------------------------------------------------------------
\* Properties of the review proxy's credential

\* Invocations i and j both called fetch and saw the same outcome of it: the
\* call was sent by both or by neither, and it got the same status and the
\* same body, or no answer at all.
SameUpstreamOutcome(i, j) ==
    /\ pc[i] = "done" /\ pc[j] = "done"
    /\ calls[i] = 1 /\ calls[j] = 1
    /\ ValidHeaderValue(Authorization(envKey[i])) = ValidHeaderValue(Authorization(envKey[j]))
    /\ res[i] = res[j]
    /\ data[i] = data[j]

\* C27: the value of a non-empty credential does not reach the caller: two
\* invocations that call the upstream service with whatever credentials and
\* see the same upstream outcome return the same response (status, headers,
\* body).  A credential that holds a line break is quoted in the message of
\* the error fetch rejects with, and line 61 returns that message.
C27_ResponseIndependentOfCredential ==
    \A i, j \in Inv :
        (SameUpstreamOutcome(i, j) /\ envKey[i] # "" /\ envKey[j] # "")
        => resp[i] = resp[j]

----------------------------------------------------------------------------
\* Properties of the review proxy's slot, its two variables together

\* A step writes the slot.
SlotWritten == cached' # cached \/ cacheTime' # cacheTime

\* C28: the payload and its timestamp are written in one step.  In every
\* state cacheTime is 0 exactly when the slot is empty; a step that writes
\* the slot stores a payload and the time of that step, and returns that
\* payload; and as the clock does not go back, cacheTime never decreases and
\* is never ahead of the clock.
C28_SlotWrittenTogether ==
    /\ [](cacheTime = 0 <=> cached = Null)
    /\ [](cacheTime <= now)
    /\ [][/\ SlotWritten
             => /\ cached' # Null
                /\ cacheTime' = now
                /\ now' = now
                /\ \E i \in Inv :
                    /\ pc[i] = "awaitJson" /\ pc'[i] = "done"
                    /\ resp'[i] = Response(200, JSONstringify(cached'))
          /\ cacheTime' >= cacheTime]_vars

\* Two clock steps after the start an invocation that called the upstream
\* service has just written the slot: the slot holds the time of that write
\* and the payload the invocation returns.
C28_Witness ==
    /\ cached # Null
    /\ cacheTime = StartMs + 2 * TickMs
    /\ now = cacheTime
    /\ \E i \in Inv :
        /\ pc[i] = "done"
        /\ calls[i] = 1
        /\ resp[i] = Response(200, JSONstringify(cached))

\* The payload of an upstream answer that lists no review.
EmptyPayload == [reviews |-> <<>>]

\* The upstream answer invocation i has just read lists no review: its
\* reviews field is the empty list or is missing.
ReadNoReviews(i) ==
    /\ pc[i] = "awaitJson" /\ pc'[i] = "done"
    /\ data'[i] # data[i]
    /\ data'[i] # Null
    /\ ReviewsOf(data'[i]) = <<>>

\* C29: a successful upstream answer with no review (an empty list, or no
\* reviews field) is stored as {reviews: []} like any other; and while that
\* payload is fresh every request but OPTIONS is answered 200 with the empty
\* list from the slot, with no upstream call and no write.
C29_EmptyListIsCached ==
    [][\A i \in Inv :
        /\ ReadNoReviews(i)
           => /\ cached' = EmptyPayload
              /\ cacheTime' = now
              /\ resp'[i] = Response(200, JSONstringify(EmptyPayload))
        /\ (/\ BeginStep(i)
            /\ event'[i] # "OPTIONS"
            /\ cached = EmptyPayload
            /\ now - cacheTime < CACHE_TTL_MS)
           => /\ pc'[i] = "done"
              /\ resp'[i] = Response(200, JSONstringify(EmptyPayload))
              /\ calls'[i] = 0
              /\ UNCHANGED slot]_vars

\* An answer without a reviews field was stored as the empty list, and a
\* request made later in the freshness window, with no key configured, got
\* the empty list from the slot without an upstream call.
C29_Witness ==
    \E i, j \in Inv :
        /\ pc[j] = "done"
        /\ calls[j] = 1
        /\ data[j] = [total |-> 0]
        /\ pc[i] = "done"
        /\ event[i] = "GET"
        /\ envKey[i] = ""
        /\ calls[i] = 0
        /\ resp[i] = Response(200, JSONstringify(EmptyPayload))
        /\ cached = EmptyPayload
        /\ now = cacheTime + TickMs

\* C30: the fallback to the cached root document is taken only when the
\* fetch rejects.  An answer of the network whose status is not 200 (404,
\* 500) to a document request that is in no cache is returned as it is: the
\* cache is not read again for the root document, and nothing is stored.
C30_FallbackOnlyOnRejection ==
    [][swState = "activated" =>
        \A f \in Fetchers :
            /\ (/\ FetchStep(f, "fetch")
                /\ Has(fh'[f].response, "status")
                /\ fh'[f].response.status # 200)
               => /\ fh'[f].pc = "done"
                  /\ fh'[f].response \in NetResponses(fh[f].request)
                  /\ fh'[f].matches = 1
                  /\ cacheStorage' = cacheStorage
            /\ (fh[f].pc # "fallback" /\ fh'[f].pc = "fallback")
               => /\ fh[f].pc = "fetch"
                  /\ IsDocument(fh[f].request)
                  /\ fh'[f].response = IdleFetch.response
            /\ (FetchStep(f, "done") /\ Has(fh[f].response, "status")
                                     /\ fh[f].response.status # 200)
               => cacheStorage' = cacheStorage]_vars

\* A document request that is in no cache was answered 404: the page has the
\* 404, although the root document is in the cache, and the cache has no
\* entry for the request.
C30_Witness ==
    /\ swState = "activated"
    /\ CurrentEntry(RootDocument) # NoMatch
    /\ \E f \in Fetchers :
        /\ fh[f].pc = "done"
        /\ IsDocument(fh[f].request)
        /\ fh[f].matches = 1
        /\ fh[f].fetches = 1
        /\ fh[f].response = NetResponse(404, "basic", "v1")
        /\ CurrentEntry(fh[f].request.url) = NoMatch

----------------------------------------------------------------------------
\* Properties of the asset worker under fetch events for one URL

\* The entries the current cache holds for url.
EntriesFor(url) == { e \in CurrentEntries : e.url = url }

\* C31: fetch events for one uncached URL of the worker's origin, handled
\* together.  Each handler that misses fetches for itself, once, and each
\* that is answered 200 basic makes its own write; the cache never holds two
\* entries for the URL; the entry of a URL changes only by the write of a
\* handler for that URL, and after each completed write the entry is the
\* response that handler fetched: the last write to complete decides it.
C31_LastWriteDecides ==
    /\ [](\A e1, e2 \in CurrentEntries : e1.url = e2.url => e1 = e2)
    /\ [][swState = "activated" =>
            /\ \A f \in Fetchers :
                /\ (FetchStep(f, "match") /\ fh'[f].pc = "fetch")
                   => fh'[f].fetches = 1 /\ cacheStorage' = cacheStorage
                /\ (FetchStep(f, "fetch") /\ fh'[f].pc = "put")
                   => fh'[f].response \in NetResponses(fh[f].request)
                /\ FetchStep(f, "put")
                   => \/ cacheStorage' = cacheStorage
                      \/ /\ EntriesFor(fh[f].request.url)'
                              = {Entry(fh[f].request.url, fh[f].response)}
                         /\ \A e \in CurrentEntries :
                              e.url # fh[f].request.url => e \in CurrentEntries'
            /\ cacheStorage' # cacheStorage
               => \E f \in Fetchers :
                    /\ FetchStep(f, "put")
                    /\ CurrentEntries' \ CurrentEntries
                         \subseteq {Entry(fh[f].request.url, fh[f].response)}]_vars

\* Two handlers missed on one URL, fetched different answers and wrote both:
\* the cache holds one entry for the URL, the answer of one of them, and the
\* other handler's answer is no longer there.
C31_Witness ==
    /\ swState = "activated"
    /\ \E f, g \in Fetchers :
        /\ fh[f].pc = "done" /\ fh[g].pc = "done"
        /\ fh[f].request.url = fh[g].request.url
        /\ fh[f].fetches = 1 /\ fh[g].fetches = 1
        /\ fh[f].response = NetResponse(200, "basic", "v1")
        /\ fh[g].response = NetResponse(200, "basic", "v2")
        /\ EntriesFor(fh[f].request.url) = {Entry(fh[f].request.url, fh[f].response)}

----------------------------------------------------------------------------
\* The page script: the scroll throttle

\* Everything but the page script.
otherVars == <<proxyVars, normVars, swVars>>

\* document.documentElement.scrollHeight
ScrollHeight == 2400

\* lines 41, 91, 171, 837: the handlers registered on a page that has the
\* scroll-to-top button, in a browser with IntersectionObserver (line 586).
\* The page has the elements its handlers use without a test (#navbar).
scrollHandlers == <<"updateNavbar", "preventSectionGaps", "updateScrollButton">>

\* line 65: scrollHandlers.forEach(handler =>
\*              handler(scrollY, cachedWindowHeight, cachedDocumentHeight))
CallAll(handlers, scrollY, windowHeight, documentHeight) ==
    [k \in 1..Len(handlers) |->
        [handler |-> handlers[k], scrollY |-> scrollY,
         windowHeight |-> windowHeight, documentHeight |-> documentHeight]]

\* line 52: !scrollTicking
FrameWantedAlways(ticking) == TRUE
FrameWanted(ticking) == ~ticking

\* lines 174-177 and 51-72: the page is scrolled and the scroll listener
\* runs throttleScroll, which requests an animation frame unless one is
\* requested already
ScrollEvent ==
    /\ framePending < MaxPending
    \* the top, the two sides of the navbar's threshold (line 79), far down
    /\ pageYOffset' \in {0, 100, 101, 900}
    /\ scrolledSince' = TRUE
    /\ IF FrameWanted(scrollTicking)
       THEN /\ framePending' = framePending + 1
            /\ scrollTicking' = TRUE
       ELSE UNCHANGED <<framePending, scrollTicking>>
    /\ UNCHANGED <<lastScrollY, cachedWindowHeight, cachedDocumentHeight, navbarScrolled,
                   handled, innerHeight, resizeTimeout,
                   otherVars, formVars, carouselVars, faqVars, counterVars>>

\* lines 53-69: the browser runs the animation-frame callback
AnimationFrame ==
    /\ framePending > 0
    /\ framePending' = framePending - 1
    /\ cachedWindowHeight' = IF cachedWindowHeight = 0 THEN innerHeight
                             ELSE cachedWindowHeight
    /\ cachedDocumentHeight' = IF cachedDocumentHeight = 0 THEN ScrollHeight
                               ELSE cachedDocumentHeight
    /\ handled' = CallAll(scrollHandlers, pageYOffset, cachedWindowHeight',
                          cachedDocumentHeight')
    /\ navbarScrolled' = (pageYOffset > 100)    \* line 79: shouldBeScrolled
    /\ lastScrollY' = pageYOffset
    /\ scrollTicking' = FALSE
    /\ scrolledSince' = FALSE
    /\ UNCHANGED <<pageYOffset, innerHeight, resizeTimeout,
                   otherVars, formVars, carouselVars, faqVars, counterVars>>

\* lines 180-182 and 189: the window is resized; the resize listener sets
\* its timer anew
ResizeEvent ==
    /\ innerHeight' \in {800, 600} \ {innerHeight}
    /\ resizeTimeout' = TRUE
    /\ UNCHANGED <<scrollTicking, framePending, pageYOffset, lastScrollY,
                   cachedWindowHeight, cachedDocumentHeight, navbarScrolled, handled,
                   scrolledSince, otherVars, formVars, carouselVars, faqVars, counterVars>>

\* lines 183-188: the timer of the resize listener fires
ResizeSettled ==
    /\ resizeTimeout
    /\ resizeTimeout' = FALSE
    /\ cachedWindowHeight' = innerHeight
    /\ cachedDocumentHeight' = ScrollHeight
    /\ UNCHANGED <<scrollTicking, framePending, pageYOffset, lastScrollY, navbarScrolled,
                   handled, scrolledSince, innerHeight,
                   otherVars, formVars, carouselVars, faqVars, counterVars>>

NextScroll ==
    \/ ScrollEvent
    \/ AnimationFrame
    \/ ResizeEvent
    \/ ResizeSettled

\* The browser runs a requested animation frame.
SpecScroll == Init /\ [][NextScroll]_vars /\ WF_vars(AnimationFrame)

----------------------------------------------------------------------------
\* The page script: the contact form and the booking form

\* lines 327, 743: the markup of the button while the email is sent
SendingText == "<i class=\"fas fa-spinner fa-spin\"></i> Sending..."

\* lines 346, 354 and 763-771, 783-791: the alert after the send has settled
SorryOnFailure(form, outcome) ==
    IF outcome = "rejected" THEN "Sorry, the message could not be sent"
    ELSE IF form = "contact" THEN "Thank you for your message!"
    ELSE "Booking Request Submitted!"
ThanksAlert(form, outcome) ==
    IF form = "contact" THEN "Thank you for your message!" ELSE "Booking Request Submitted!"

\* line 729
RequiredAlert == "Please fill in all required fields"

\* The visitor fills a field of a form, or clears it.  The fields told
\* apart: the message of the contact form; the plan and the date of the
\* booking form, which line 728 tests.
EditField(form) ==
    /\ \E field \in (IF form = "contact" THEN {"message"} ELSE {"plan", "date"}) :
        formFields' = [formFields EXCEPT ![form] =
                          IF field \in @ THEN @ \ {field} ELSE @ \cup {field}]
    /\ UNCHANGED <<submitButton, originalButtonText, emailSend, alertShown, consoleLine,
                   otherVars, scrollVars, carouselVars, faqVars, counterVars>>

\* lines 311-340 and 714-755: the submit listener of a form runs.  A form
\* whose submit button is disabled is not submitted by the browser.  The
\* booking form's listener tests !formData.plan || !formData.date (line 728).
SubmitEvent(form) ==
    /\ ~submitButton[form].disabled
    /\ IF form = "booking" /\ ~({"plan", "date"} \subseteq formFields[form])
       THEN /\ alertShown' = [alertShown EXCEPT ![form] = RequiredAlert]
            /\ UNCHANGED <<submitButton, originalButtonText, emailSend>>
       ELSE /\ originalButtonText' =
                  [originalButtonText EXCEPT ![form] = submitButton[form].innerHTML]
            /\ submitButton' = [submitButton EXCEPT
                                  ![form] = [disabled |-> TRUE, innerHTML |-> SendingText]]
            /\ emailSend' = [emailSend EXCEPT ![form] = "pending"]
            /\ UNCHANGED alertShown
    /\ UNCHANGED <<formFields, consoleLine,
                   otherVars, scrollVars, carouselVars, faqVars, counterVars>>

\* lines 340-362 and 755-798: the promise of emailjs.send settles; the
\* callback of its outcome runs, then the finally callback.  window.scrollTo
\* (line 775) starts a scroll of the page, whose events are ScrollEvent's.
SendSettles(form) ==
    /\ emailSend[form] = "pending"
    /\ \E outcome \in {"fulfilled", "rejected"} :
        \* lines 344, 351 and 759, 779
        /\ consoleLine' = [consoleLine EXCEPT ![form] =
                              IF outcome = "fulfilled" THEN "SUCCESS!" ELSE "FAILED..."]
        /\ alertShown' = [alertShown EXCEPT ![form] = ThanksAlert(form, outcome)]
    /\ formFields' = [formFields EXCEPT ![form] = {}]
    /\ submitButton' = [submitButton EXCEPT
                          ![form] = [disabled |-> FALSE,
                                     innerHTML |-> originalButtonText[form]]]
    /\ emailSend' = [emailSend EXCEPT ![form] = "none"]
    /\ UNCHANGED <<originalButtonText,
                   otherVars, scrollVars, carouselVars, faqVars, counterVars>>

NextForms ==
    \/ \E form \in Forms : EditField(form)
    \/ \E form \in Forms : SubmitEvent(form)
    \/ \E form \in Forms : SendSettles(form)

SpecForms == Init /\ [][NextForms]_vars

\* The submit listener of form has run.
Submitted(form) ==
    \/ emailSend'[form] # emailSend[form] /\ emailSend'[form] = "pending"
    \/ alertShown'[form] # alertShown[form] /\ alertShown'[form] = RequiredAlert

\* The send of form has settled.
Settled(form) == emailSend[form] = "pending" /\ emailSend'[form] = "none"

\* While the send is under way the button is disabled and shows the
\* sending text; when it settles, fulfilled or rejected, the button is
\* enabled with the text it had, the thanks are shown and the form is reset.
SendingThenRestored(form) ==
    /\ emailSend'[form] = "pending"
       => submitButton'[form] = [disabled |-> TRUE, innerHTML |-> SendingText]
    /\ Settled(form)
       => /\ submitButton'[form] = [disabled |-> FALSE, innerHTML |-> ButtonText(form)]
          /\ alertShown'[form] = ThanksAlert(form, "fulfilled")
          /\ formFields'[form] = {}
          /\ consoleLine'[form] \in {"SUCCESS!", "FAILED..."}

----------------------------------------------------------------------------
\* The page script: the testimonials carousel

ContainerWidths == {300, 400, 800, 1200}
CardOffsetWidths == {0, 260, 320}

\* lines 604, 617: cards[0]?.offsetWidth || 320
CardWidth(offsetWidth) == IF offsetWidth = 0 THEN 320 ELSE offsetWidth
\* lines 605, 618
gap == 40

\* lines 603-608
getVisibleCards(container, offsetWidth) == container \div (CardWidth(offsetWidth) + gap)

\* lines 613, 631: Math.max(0, totalCards - visibleCards)
MaxIndex(total, container, offsetWidth) ==
    IF total - getVisibleCards(container, offsetWidth) > 0
    THEN total - getVisibleCards(container, offsetWidth) ELSE 0

\* lines 614-615: Math.max(0, Math.min(currentIndex, maxIndex))
ClampOmitted(index, maxIndex) == index
Clamp(index, maxIndex) ==
    LET least == IF index < maxIndex THEN index ELSE maxIndex
    IN  IF least > 0 THEN least ELSE 0

\* lines 611-626: updateCarousel(), with currentIndex as it was just assigned
updateCarousel(index, total, container, offsetWidth) ==
    LET maxIndex == MaxIndex(total, container, offsetWidth)
        clamped == Clamp(index, maxIndex)
    IN  /\ currentIndex' = clamped
        /\ translateX' = 0 - clamped * (CardWidth(offsetWidth) + gap)
        /\ prevBtn' = [disabled |-> clamped = 0]
        /\ nextBtn' = [disabled |-> clamped >= maxIndex]

\* lines 591-600, 647: the DOMContentLoaded listener finds the carousel and
\* its buttons, counts the cards and initializes.
CarouselLoaded ==
    /\ ~carouselLoaded
    /\ carouselLoaded' = TRUE
    /\ totalCards' \in 0..MaxCards
    /\ containerWidth' \in ContainerWidths
    /\ cardOffsetWidth' \in (IF totalCards' = 0 THEN {0} ELSE CardOffsetWidths \ {0})
    /\ updateCarousel(0, totalCards', containerWidth', cardOffsetWidth')
    /\ carouselEvent' = "load"
    /\ UNCHANGED <<carouselTimeout, otherVars, scrollVars, formVars, faqVars, counterVars>>

\* lines 629-636: the click listener of the next button
NextClick ==
    /\ carouselLoaded
    /\ IF currentIndex < MaxIndex(totalCards, containerWidth, cardOffsetWidth)
       THEN updateCarousel(currentIndex + 1, totalCards, containerWidth, cardOffsetWidth)
       ELSE UNCHANGED <<currentIndex, translateX, prevBtn, nextBtn>>
    /\ carouselEvent' = "next"
    /\ UNCHANGED <<carouselLoaded, totalCards, containerWidth, cardOffsetWidth,
                   carouselTimeout, otherVars, scrollVars, formVars, faqVars, counterVars>>

\* lines 639-644: the click listener of the previous button
PrevClick ==
    /\ carouselLoaded
    /\ IF currentIndex > 0
       THEN updateCarousel(currentIndex - 1, totalCards, containerWidth, cardOffsetWidth)
       ELSE UNCHANGED <<currentIndex, translateX, prevBtn, nextBtn>>
    /\ carouselEvent' = "prev"
    /\ UNCHANGED <<carouselLoaded, totalCards, containerWidth, cardOffsetWidth,
                   carouselTimeout, otherVars, scrollVars, formVars, faqVars, counterVars>>

\* lines 650-656: the window was resized, the layout has new widths, and the
\* resize listener sets its timer anew.
CarouselResize ==
    /\ carouselLoaded
    /\ containerWidth' \in ContainerWidths
    /\ cardOffsetWidth' \in (IF totalCards = 0 THEN {0} ELSE CardOffsetWidths \ {0})
    /\ carouselTimeout' = TRUE
    /\ carouselEvent' = "resize"
    /\ UNCHANGED <<carouselLoaded, totalCards, currentIndex, translateX, prevBtn, nextBtn,
                   otherVars, scrollVars, formVars, faqVars, counterVars>>

\* lines 653-655: 250 ms after the last resize event the timer fires
CarouselResizeSettled ==
    /\ carouselTimeout
    /\ carouselTimeout' = FALSE
    /\ updateCarousel(currentIndex, totalCards, containerWidth, cardOffsetWidth)
    /\ carouselEvent' = "settled"
    /\ UNCHANGED <<carouselLoaded, totalCards, containerWidth, cardOffsetWidth,
                   otherVars, scrollVars, formVars, faqVars, counterVars>>

NextCarousel ==
    \/ CarouselLoaded
    \/ NextClick
    \/ PrevClick
    \/ CarouselResize
    \/ CarouselResizeSettled

SpecCarousel == Init /\ [][NextCarousel]_vars

\* maxIndex of the layout as it is
MaxIndexNow == MaxIndex(totalCards, containerWidth, cardOffsetWidth)

\* The index is within its bounds and each button is disabled exactly at
\* its bound.
CarouselInBounds ==
    /\ 0 <= currentIndex
    /\ currentIndex <= MaxIndexNow
    /\ prevBtn.disabled <=> currentIndex = 0
    /\ nextBtn.disabled <=> currentIndex >= MaxIndexNow

\* A click on a button that is at its bound leaves currentIndex as it was;
\* a click elsewhere moves it by one, or, the previous button's, back to
\* maxIndex when the index stood beyond it.
ClickMovesWithinBounds ==
    /\ carouselEvent' = "next" =>
         currentIndex' = IF currentIndex < MaxIndexNow THEN currentIndex + 1
                         ELSE currentIndex
    /\ carouselEvent' = "prev" =>
         currentIndex' = IF currentIndex = 0 THEN 0
                         ELSE IF currentIndex - 1 < MaxIndexNow THEN currentIndex - 1
                         ELSE MaxIndexNow

\* C34, as stated: once initialized, after every click and every resize the
\* index is within 0..max(0, totalCards - visibleCards) and each button is
\* disabled exactly at its bound.
C34_InBoundsAfterEveryEvent == carouselLoaded => CarouselInBounds

\* C34: once initialized, whenever no resize timer is waiting, the index is
\* within 0..max(0, totalCards - visibleCards) and each button is disabled
\* exactly at its bound; while the timer of a resize waits the index is
\* still within 0..totalCards and the previous button is still disabled
\* exactly at 0; a click at a bound leaves the index as it was.
C34_InBoundsOnceResizeSettled ==
    [][/\ (carouselLoaded' /\ ~carouselTimeout') => CarouselInBounds'
       /\ carouselLoaded' => /\ 0 <= currentIndex' /\ currentIndex' <= totalCards'
                             /\ prevBtn'.disabled <=> currentIndex' = 0
       /\ ClickMovesWithinBounds]_vars

\* The timer of a resize has fired and the carousel stands at maxIndex of
\* the new layout, above 0 and with cards to its right in view: the next
\* button is disabled and the previous one is not.
C34_Witness ==
    /\ carouselEvent = "settled"
    /\ currentIndex = MaxIndexNow
    /\ currentIndex > 0
    /\ currentIndex < totalCards
    /\ translateX < 0
    /\ nextBtn.disabled
    /\ ~prevBtn.disabled

----------------------------------------------------------------------------
\* The page script: the FAQ accordion

\* line 661: document.querySelectorAll('.faq-item')
faqItems == 1..NFaq

\* lines 667-677: the class lists after a click on the question of item
ToggleClicked(item, active) ==
    IF item \in active THEN active \ {item} ELSE active \cup {item}
AfterClick(item, active) ==
    LET isActive == item \in active
        closed == active \ faqItems
    IN  IF ~isActive THEN closed \cup {item} ELSE closed

\* lines 660-666: the DOMContentLoaded listener gives every question its
\* click listener.  Which items the page's markup shows open is the page's
\* own matter.
FaqLoaded ==
    /\ ~faqLoaded
    /\ faqLoaded' = TRUE
    /\ faqActive' \in SUBSET faqItems
    /\ UNCHANGED <<faqClicked, otherVars, scrollVars, formVars, carouselVars, counterVars>>

\* lines 666-678: the click listener of an item's question
QuestionClick(item) ==
    /\ faqLoaded
    /\ faqActive' = AfterClick(item, faqActive)
    /\ faqClicked' = item
    /\ UNCHANGED <<faqLoaded, otherVars, scrollVars, formVars, carouselVars, counterVars>>

NextFaq ==
    \/ FaqLoaded
    \/ \E item \in faqItems : QuestionClick(item)

SpecFaq == Init /\ [][NextFaq]_vars

\* C35: after a click on a FAQ question at most one item is active: a click
\* on an inactive item makes it the only active item, a click on an active
\* item leaves none active; and so it stays after any sequence of clicks.
C35_AtMostOneOpen ==
    [][/\ faqClicked' # 0 => Cardinality(faqActive') <= 1
       /\ \A item \in faqItems :
            (faqLoaded /\ faqClicked' = item) =>
                faqActive' = IF item \in faqActive THEN {} ELSE {item}]_vars

\* The question of item 1 was clicked last, while the item was closed: it
\* is the only open item.
C35_Witness ==
    /\ faqClicked = 1
    /\ faqActive = {1}

----------------------------------------------------------------------------
\* The page script: the animated counter

\* Strings of the page are sequences of characters here, so that parseInt,
\* includes and the concatenation of line 273 are computed.
Digits == <<"0", "1", "2", "3", "4", "5", "6", "7", "8", "9">>

\* The values of data-target the pages may carry: positive ones, bare and
\* with the suffixes line 273 looks for, with a sign, with a fraction; zero;
\* negative ones; and ones that are no number, the empty attribute among them.
DataTargets ==
    { <<"3">>, <<"1", "5", "0", "+">>, <<"9", "8", "%">>, <<"+", "7">>,
      <<" ", "1", "2">>, <<"4", ".", "5">>,
      <<"0">>, <<"-", "0">>, <<"-", "5">>, <<"-", "2", "0", "0", "%">>,
      <<>>, <<"a", "b", "c">>, <<"+">>, <<"%", "5">> }

\* the number a sequence of decimal digits denotes
RECURSIVE DecimalValue(_)
DecimalValue(ds) ==
    IF ds = <<>> THEN 0
    ELSE 10 * DecimalValue(SubSeq(ds, 1, Len(ds) - 1))
           + (CHOOSE d \in 0..9 : Digits[d + 1] = ds[Len(ds)])

\* the string without its leading white space
RECURSIVE TrimStart(_)
TrimStart(s) == IF s # <<>> /\ s[1] = " " THEN TrimStart(Tail(s)) ELSE s

\* line 265: parseInt(string), radix 10 (no value of DataTargets begins
\* with 0x): white space, a sign, then digits up to the first other
\* character; NaN when there is no digit.
parseInt(s) ==
    LET t == TrimStart(s)
        signed == t # <<>> /\ t[1] \in {"+", "-"}
        rest == IF signed THEN Tail(t) ELSE t
        IsDigit(c) == \E d \in 1..10 : Digits[d] = c
        n == CHOOSE i \in 0..Len(rest) :
                 /\ \A j \in 1..i : IsDigit(rest[j])
                 /\ i = Len(rest) \/ ~IsDigit(rest[i + 1])
        value == DecimalValue(SubSeq(rest, 1, n))
    IN  IF n = 0 THEN [nan |-> TRUE]
        ELSE IF signed /\ t[1] = "-" THEN [nan |-> FALSE, val |-> 0 - value]
        ELSE [nan |-> FALSE, val |-> value]

\* String(n) of a whole number that is not negative
RECURSIVE NumberToString(_)
NumberToString(n) ==
    IF n < 10 THEN <<Digits[n + 1]>>
    ELSE NumberToString(n \div 10) \o <<Digits[(n % 10) + 1]>>

includes(s, c) == \E i \in 1..Len(s) : s[i] = c

\* line 266-267: duration / 16, the additions of `increment` that make up
\* `target` when the arithmetic is exact
StepsToTarget == 125

\* lines 271-272: whether `current < target` may hold after `frames`
\* additions of target / 125.  The sum is a float: after 125 additions it
\* may fall just short of a positive target or reach it; any comparison
\* with NaN is false.
CurrentBelowTarget(frames, target) ==
    IF target.nan THEN {FALSE}
    ELSE IF target.val > 0
         THEN IF frames < StepsToTarget THEN {TRUE}
              ELSE IF frames = StepsToTarget THEN {TRUE, FALSE} ELSE {FALSE}
    ELSE IF target.val < 0
         THEN IF frames > StepsToTarget THEN {TRUE} ELSE {FALSE}
    ELSE {FALSE}

\* lines 270-278: updateCounter(), the call that makes `frames` additions.
\* Math.floor(current) of line 273 is taken of a float below a positive
\* target: at a whole multiple the sum may fall just short of it.
updateCounter(frames) ==
    LET target == parseInt(dataTarget)
        exact == (frames * target.val) \div StepsToTarget
        floors == IF (frames * target.val) % StepsToTarget = 0 /\ exact > 0
                  THEN {exact - 1, exact} ELSE {exact}
        suffix == (IF includes(dataTarget, "+") THEN <<"+">> ELSE <<>>)
                    \o (IF includes(dataTarget, "%") THEN <<"%">> ELSE <<>>)
    IN  /\ counterFrames' = frames
        /\ \E below \in CurrentBelowTarget(frames, target) :
             IF below
             THEN /\ \E floor \in floors :
                        textContent' = NumberToString(floor) \o suffix
                  /\ counterPending' = TRUE
             ELSE /\ textContent' = dataTarget
                  /\ counterPending' = FALSE

\* line 286: the test of the observer's callback
CountsEveryTime(isIntersecting, hasCounted) == isIntersecting
ShouldCount(isIntersecting, hasCounted) == isIntersecting /\ ~hasCounted

\* lines 285-291: entries.forEach: how often animateCounter is called
RECURSIVE StartsIn(_, _)
StartsIn(entries, hasCounted) ==
    IF entries = <<>> THEN 0
    ELSE IF ShouldCount(Head(entries), hasCounted)
         THEN 1 + StartsIn(Tail(entries), TRUE)
         ELSE StartsIn(Tail(entries), hasCounted)

\* lines 295, 302-305: the DOMContentLoaded listener has the observer
\* observe every .stat-number[data-target]; the model follows one of them.
CounterLoaded ==
    /\ ~counterLoaded
    /\ counterLoaded' = TRUE
    /\ dataTarget' \in DataTargets
    /\ counterObserved' = TRUE
    /\ UNCHANGED <<counted, counterStarts, counterFrames, counterPending, textContent,
                   otherVars, scrollVars, formVars, carouselVars, faqVars>>

\* lines 284-292: the observer's callback with entries for the element.
\* animateCounter (lines 264-281) sets current to 0 and calls updateCounter
\* at once.
ObserverCallback ==
    /\ counterObserved
    \* the entries of one callback, all for the one element (isIntersecting)
    /\ \E entries \in UNION { [1..n -> BOOLEAN] : n \in 1..MaxEntries } :
        LET starts == StartsIn(entries, counted)
        IN  /\ counterStarts' = counterStarts + starts
            /\ IF starts > 0
               THEN /\ counted' = TRUE
                    /\ counterObserved' = FALSE
                    /\ updateCounter(1)
               ELSE UNCHANGED <<counted, counterObserved, counterFrames,
                                counterPending, textContent>>
    /\ UNCHANGED <<counterLoaded, dataTarget,
                   otherVars, scrollVars, formVars, carouselVars, faqVars>>

\* line 274: the animation frame requested by updateCounter
CounterFrame ==
    /\ counterPending
    /\ updateCounter(counterFrames + 1)
    /\ UNCHANGED <<counterLoaded, dataTarget, counterObserved, counted, counterStarts,
                   otherVars, scrollVars, formVars, carouselVars, faqVars>>

NextCounter ==
    \/ CounterLoaded
    \/ ObserverCallback
    \/ CounterFrame

\* The browser runs a requested animation frame.
SpecCounter == Init /\ [][NextCounter]_vars /\ WF_vars(CounterFrame)

\* C36: animateCounter is called at most once for the element; once called,
\* its frame loop ends, and whenever it is not waiting for a frame the
\* element's text is the data-target attribute, character for character,
\* be the value positive, zero, negative or no number.
C36_CountsOnceAndEndsOnTarget ==
    /\ [](counterStarts <= 1)
    /\ []((counted /\ ~counterPending) => textContent = dataTarget)
    /\ [](counterPending => counted /\ counterFrames <= StepsToTarget)
    /\ (counted ~> (~counterPending /\ textContent = dataTarget))

\* The counter of a positive target with a suffix has run its 125 frames and
\* one more, and shows the attribute.
C36_Witness ==
    /\ counterStarts = 1
    /\ ~counterPending
    /\ counterFrames = StepsToTarget + 1
    /\ includes(dataTarget, "%")
    /\ textContent = dataTarget

====
